---- MODULE Spec2Model ----
(***************************************************************************)
(* A model of the plan_parser backend: the spreadsheet normalisation       *)
(* pipeline of app/utils/excel_utils.py and the DataParser service of      *)
(* app/services/data_parser/core.py.                                       *)
(*                                                                         *)
(* Text is modelled as a sequence of one-character strings, so that        *)
(* str(), strip(), join() and the pattern tests are computed, not assumed. *)
(* A cell value is a record [k, n, s]: k its Python type, n its number     *)
(* (int: the value; float: the value in tenths; datetime/ts: yyyymmdd),    *)
(* s its text (k = "str").                                                 *)
(***************************************************************************)
EXTENDS Integers, Sequences, FiniteSets, TLC

VARIABLES
    sheet,      \* header run: the raw grid read with header=None
    hpc,        \* header run: position ("idle", "loaded", "detected", "merged")
    hrc,        \* header run: result of detect_header_row_count(sheet)
    merged,     \* header run: result of merge_excel_headers(sheet)
    etable,     \* expansion run: the table handed to expand_merged_rows
    ecfg,       \* expansion run: columns_to_fill, auto_detect, null_threshold
    eout,       \* expansion run: expand_merged_rows(etable)
    eout2,      \* expansion run: expand_merged_rows(eout)
    einfo,      \* expansion run: the info of expand_merged_rows_with_info(etable)
    epc,        \* expansion run: position ("idle", "loaded", "expanded", "reexpanded")
    tdf,        \* transform run: the normalised table
    tmap,       \* transform run: the column role mapping
    tout,       \* transform run: extract_and_transform_data(tdf, tmap)
    tsrc,       \* transform run: for each record of tout, the row it was built from
    tpc,        \* transform run: position ("idle", "loaded", "done")
    ipc,        \* ingestion r: position in parse_data_from_excel
    ifile,      \* ingestion r: the grid its file holds
    idf,        \* ingestion r: df after process_excel_file_with_info
    iinfo,      \* ingestion r: info of process_excel_file_with_info
    iprompt,    \* ingestion r: the column samples of the prompt extract_mapping holds
    iresp,      \* ingestion r: what the oracle call gave
    imap,       \* ingestion r: column_mapping
    iobjs,      \* ingestion r: objects
    ifail,      \* ingestion r: the step that raised ("" while none has)
    icalls,     \* ingestion r: how often it invoked create_many and the metadata create
    db_items,   \* the production_items collection: documents, each with the run that wrote it
    db_meta,    \* the extraction_metadata collection
    lib,        \* the runtime under the parser: [year_padded, to_datetime, setitem]
    dval,       \* date run: the value handed to parse_date_to_ddmmyyyy
    dout,       \* date run: parse_date_to_ddmmyyyy(dval)
    dout2,      \* date run: parse_date_to_ddmmyyyy(dout)
    dpc         \* date run: position ("idle", "loaded", "parsed", "reparsed")

headerVars == <<sheet, hpc, hrc, merged>>
expandVars == <<etable, ecfg, eout, eout2, einfo, epc>>
transformVars == <<tdf, tmap, tout, tsrc, tpc>>
ingestVars == <<ipc, ifile, idf, iinfo, iprompt, iresp, imap, iobjs, ifail, icalls,
                db_items, db_meta>>
dateVars == <<dval, dout, dout2, dpc>>
vars == <<sheet, hpc, hrc, merged, etable, ecfg, eout, eout2, einfo, epc,
          tdf, tmap, tout, tsrc, tpc,
          ipc, ifile, idf, iinfo, iprompt, iresp, imap, iobjs, ifail, icalls, db_items,
          db_meta,
          lib, dval, dout, dout2, dpc>>

----------------------------------------------------------------------------
(* Text helpers *)

Digits == <<"0", "1", "2", "3", "4", "5", "6", "7", "8", "9">>

DigitSet == {Digits[i] : i \in 1..10}

Whitespace == {" ", "\t", "\n"}

UpperLetters == <<"A", "B", "C", "D", "E", "F", "G", "H", "I", "J", "K", "L", "M",
                  "N", "O", "P", "Q", "R", "S", "T", "U", "V", "W", "X", "Y", "Z">>

LowerLetters == <<"a", "b", "c", "d", "e", "f", "g", "h", "i", "j", "k", "l", "m",
                  "n", "o", "p", "q", "r", "s", "t", "u", "v", "w", "x", "y", "z">>

LowerChar(c) ==
    IF \E i \in 1..26 : UpperLetters[i] = c
    THEN LowerLetters[CHOOSE i \in 1..26 : UpperLetters[i] = c]
    ELSE c

Lower(s) == [i \in 1..Len(s) |-> LowerChar(s[i])]

RECURSIVE IntToStr(_)
IntToStr(n) ==
    IF n < 0 THEN <<"-">> \o IntToStr(0 - n)
    ELSE IF n < 10 THEN <<Digits[n + 1]>>
    ELSE IntToStr(n \div 10) \o <<Digits[(n % 10) + 1]>>

Pad2(n) == IF n < 10 THEN <<"0">> \o IntToStr(n) ELSE IntToStr(n)

Pad4(n) ==
    IF n < 10 THEN <<"0", "0", "0">> \o IntToStr(n)
    ELSE IF n < 100 THEN <<"0", "0">> \o IntToStr(n)
    ELSE IF n < 1000 THEN <<"0">> \o IntToStr(n)
    ELSE IntToStr(n)

\* s.strip(): leading and trailing whitespace removed
Strip(s) ==
    LET keep == {i \in 1..Len(s) : s[i] \notin Whitespace}
    IN  IF keep = {} THEN <<>>
        ELSE SubSeq(s, CHOOSE i \in keep : \A j \in keep : i <= j,
                       CHOOSE i \in keep : \A j \in keep : j <= i)

\* s.replace(c, '')
RECURSIVE RemoveChar(_, _)
RemoveChar(s, c) ==
    IF s = <<>> THEN <<>>
    ELSE IF Head(s) = c THEN RemoveChar(Tail(s), c)
    ELSE <<Head(s)>> \o RemoveChar(Tail(s), c)

\* ' '.join(parts)
RECURSIVE JoinSpace(_)
JoinSpace(parts) ==
    IF parts = <<>> THEN <<>>
    ELSE IF Len(parts) = 1 THEN parts[1]
    ELSE parts[1] \o <<" ">> \o JoinSpace(Tail(parts))

AllDigits(s) == \A i \in 1..Len(s) : s[i] \in DigitSet

\* Python's digitpart: digits, single underscores allowed between two digits
IsDigitPart(s) ==
    /\ Len(s) >= 1
    /\ \A i \in 1..Len(s) : s[i] \in DigitSet \cup {"_"}
    /\ \A i \in 1..Len(s) :
          s[i] = "_" => i > 1 /\ i < Len(s) /\ s[i - 1] # "_" /\ s[i + 1] # "_"

Positions(s, cs) == {i \in 1..Len(s) : s[i] \in cs}

MinOf(S) == CHOOSE x \in S : \A y \in S : x <= y

DropSign(s) == IF s # <<>> /\ s[1] \in {"+", "-"} THEN Tail(s) ELSE s

\* the mantissa of a float literal: digitpart ["." [digitpart]] | "." digitpart
IsMantissa(s) ==
    LET dots == Positions(s, {"."})
    IN  IF dots = {} THEN IsDigitPart(s)
        ELSE /\ Cardinality(dots) = 1
             /\ LET d    == MinOf(dots)
                    ip   == SubSeq(s, 1, d - 1)
                    fp   == SubSeq(s, d + 1, Len(s))
                IN  /\ ip = <<>> \/ IsDigitPart(ip)
                    /\ fp = <<>> \/ IsDigitPart(fp)
                    /\ ip # <<>> \/ fp # <<>>

\* whether float(s) succeeds (Python's float() grammar on ASCII text)
IsPyFloat(s0) ==
    LET s    == DropSign(Strip(s0))
        es   == Positions(s, {"e", "E"})
    IN  \/ Lower(s) \in {<<"i", "n", "f">>, <<"n", "a", "n">>,
                          <<"i", "n", "f", "i", "n", "i", "t", "y">>}
        \/ /\ es = {}
           /\ IsMantissa(s)
        \/ /\ es # {}
           /\ IsMantissa(SubSeq(s, 1, MinOf(es) - 1))
           /\ IsDigitPart(DropSign(SubSeq(s, MinOf(es) + 1, Len(s))))

\* re.match of ^\d{a1,b1}[-/\.]\d{a2,b2}[-/\.]\d{a3,b3}$ (ranges = <<a1,b1,a2,b2,a3,b3>>)
MatchesDatePattern(s, ranges) ==
    LET seps == Positions(s, {"-", "/", "."})
    IN  /\ Cardinality(seps) = 2
        /\ LET p1 == MinOf(seps)
               p2 == MinOf(seps \ {p1})
               a  == SubSeq(s, 1, p1 - 1)
               b  == SubSeq(s, p1 + 1, p2 - 1)
               c  == SubSeq(s, p2 + 1, Len(s))
           IN  /\ AllDigits(a) /\ AllDigits(b) /\ AllDigits(c)
               /\ Len(a) >= ranges[1] /\ Len(a) <= ranges[2]
               /\ Len(b) >= ranges[3] /\ Len(b) <= ranges[4]
               /\ Len(c) >= ranges[5] /\ Len(c) <= ranges[6]

----------------------------------------------------------------------------
(* Cell values *)

NaN == [k |-> "nan", n |-> 0, s |-> <<>>]          \* float('nan'), pandas' empty cell
None == [k |-> "none", n |-> 0, s |-> <<>>]        \* Python None
IntV(i) == [k |-> "int", n |-> i, s |-> <<>>]      \* Python int
FloatV(t) == [k |-> "float", n |-> t, s |-> <<>>]  \* Python float, t tenths
StrV(t) == [k |-> "str", n |-> 0, s |-> t]         \* Python str
DateTimeV(d) == [k |-> "datetime", n |-> d, s |-> <<>>]  \* datetime.datetime at midnight
TimestampV(d) == [k |-> "ts", n |-> d, s |-> <<>>]       \* pandas.Timestamp at midnight
NaT == [k |-> "nat", n |-> 0, s |-> <<>>]                \* pandas.NaT
ListV(len) == [k |-> "list", n |-> len, s |-> <<>>]      \* a list of len non-null elements
Raised == [k |-> "raised", n |-> 0, s |-> <<>>]          \* no value: the call raised

\* pd.isna(value)
IsNa(v) == v.k \in {"nan", "none", "nat"}

DateText(d) ==
    Pad4(d \div 10000) \o <<"-">> \o Pad2((d \div 100) % 100) \o <<"-">> \o Pad2(d % 100)
        \o <<" ", "0", "0", ":", "0", "0", ":", "0", "0">>

\* str(value)
Str(v) ==
    CASE v.k = "str"      -> v.s
      [] v.k = "int"      -> IntToStr(v.n)
      [] v.k = "float"    -> IntToStr(v.n \div 10) \o <<".">> \o IntToStr(v.n % 10)
      [] v.k = "nan"      -> <<"n", "a", "n">>
      [] v.k = "none"     -> <<"N", "o", "n", "e">>
      [] v.k = "datetime" -> DateText(v.n)
      [] v.k = "ts"       -> DateText(v.n)
      [] v.k = "nat"      -> <<"N", "a", "T">>

----------------------------------------------------------------------------
(* excel_utils.py : value classifier, header-row detector, header merger *)

DatePatterns == << <<1, 2, 1, 2, 2, 4>>, <<4, 4, 1, 2, 1, 2>>, <<1, 2, 1, 2, 2, 2>> >>

is_data_value(value) ==
    IF IsNa(value) THEN FALSE
    ELSE IF value.k \in {"int", "float"} THEN TRUE
    ELSE IF value.k = "ts" THEN TRUE
    ELSE LET str_val == Strip(Str(value))
         IN  IF str_val = <<>> THEN FALSE
             ELSE IF IsPyFloat(RemoveChar(str_val, ",")) THEN TRUE
             ELSE \E p \in 1..Len(DatePatterns) :
                      MatchesDatePattern(str_val, DatePatterns[p])

\* row.dropna()
DropNa(row) == SelectSeq(row, LAMBDA v : ~IsNa(v))

DataCount(row) == Cardinality({i \in 1..Len(row) : is_data_value(row[i])})

\* threshold 0.3 as the fraction ThresholdNum / ThresholdDen
ThresholdNum == 3
ThresholdDen == 10

is_data_row_all_cells(row) ==
    IF Len(DropNa(row)) = 0 THEN FALSE
    ELSE DataCount(DropNa(row)) * ThresholdDen >= ThresholdNum * Len(row)

is_data_row(row) ==
    LET non_null_values == DropNa(row)
    IN  IF Len(non_null_values) = 0 THEN FALSE
        ELSE DataCount(non_null_values) * ThresholdDen
                 >= ThresholdNum * Len(non_null_values)

detect_header_row_count_one_based(df) ==
    LET hits == {i \in 1..Len(df.rows) : is_data_row(df.rows[i])}
    IN  IF hits = {} THEN 0 ELSE MinOf(hits)

\* first idx (zero-based) with is_data_row(df.iloc[idx]), else 0
detect_header_row_count(df) ==
    LET hits == {i \in 1..Len(df.rows) : is_data_row(df.rows[i])}
    IN  IF hits = {} THEN 0 ELSE MinOf(hits) - 1

remove_all_duplicates(tokens) ==
    LET firsts == {i \in 1..Len(tokens) : \A j \in 1..(i - 1) : tokens[j] # tokens[i]}
        F[i \in 0..Len(tokens)] ==
            IF i = 0 THEN <<>>
            ELSE IF i \in firsts THEN Append(F[i - 1], tokens[i]) ELSE F[i - 1]
    IN  F[Len(tokens)]

RECURSIVE DedupFrom(_, _)
DedupFrom(result, rest) ==
    IF rest = <<>> THEN result
    ELSE IF Head(rest) # result[Len(result)]
         THEN DedupFrom(Append(result, Head(rest)), Tail(rest))
         ELSE DedupFrom(result, Tail(rest))

remove_consecutive_duplicates(tokens) ==
    IF tokens = <<>> THEN tokens
    ELSE DedupFrom(<<tokens[1]>>, Tail(tokens))

\* one row of header_df.ffill(axis=1): a null cell takes the nearest non-null
\* cell to its left, if any
ffill_axis1(row) ==
    [c \in 1..Len(row) |->
        LET left == {j \in 1..c : ~IsNa(row[j])}
        IN  IF left = {} THEN row[c]
            ELSE row[CHOOSE j \in left : \A j2 \in left : j2 <= j]]

\* the fragments of column col_idx (one-based here), top to bottom
RECURSIVE header_parts(_, _, _, _)
header_parts(df, header_row_count, col_idx, row_idx) ==
    IF row_idx > header_row_count THEN <<>>
    ELSE LET cell_value == ffill_axis1(df.rows[row_idx])[col_idx]
             str_value  == Strip(Str(cell_value))
             rest       == header_parts(df, header_row_count, col_idx, row_idx + 1)
         IN  IF IsNa(cell_value) THEN rest
             ELSE IF str_value # <<>> THEN <<str_value>> \o rest
             ELSE rest

ColumnPlaceholderOneBased(col_idx) ==
    <<"C", "o", "l", "u", "m", "n", "_">> \o IntToStr(col_idx)

ColumnPlaceholder(col_idx) ==
    <<"C", "o", "l", "u", "m", "n", "_">> \o IntToStr(col_idx - 1)

merged_header_no_fallback(df, header_row_count, col_idx) ==
    JoinSpace(remove_consecutive_duplicates(
                  header_parts(df, header_row_count, col_idx, 1)))

merged_header(df, header_row_count, col_idx) ==
    LET parts == remove_consecutive_duplicates(
                     header_parts(df, header_row_count, col_idx, 1))
    IN  IF parts # <<>> THEN JoinSpace(parts) ELSE ColumnPlaceholder(col_idx)

merge_excel_headers_always(df) ==
    LET header_row_count == detect_header_row_count(df)
    IN  [cols |-> [c \in 1..Len(df.cols) |-> StrV(merged_header(df, header_row_count, c))],
         rows |-> SubSeq(df.rows, header_row_count + 1, Len(df.rows))]

merge_excel_headers(df) ==
    LET header_row_count == detect_header_row_count(df)
    IN  IF header_row_count = 0 THEN df
        ELSE [cols |-> [c \in 1..Len(df.cols) |->
                           StrV(merged_header(df, header_row_count, c))],
              rows |-> SubSeq(df.rows, header_row_count + 1, Len(df.rows))]

----------------------------------------------------------------------------
(* excel_utils.py : group-column expander *)

NullCount(df, c) == Cardinality({r \in 1..Len(df.rows) : IsNa(df.rows[r][c])})

\* null_threshold <= null_ratio < 1.0, null_threshold the fraction thr[1] / thr[2]
RatioInRange(df, c, thr) ==
    /\ thr[1] * Len(df.rows) <= NullCount(df, c) * thr[2]
    /\ NullCount(df, c) < Len(df.rows)

QualifiesIgnoringFirstRow(df, c, thr) == RatioInRange(df, c, thr)

Qualifies(df, c, thr) ==
    /\ RatioInRange(df, c, thr)
    /\ ~IsNa(df.rows[1][c])

RECURSIVE GroupColumnsFrom(_, _, _)
GroupColumnsFrom(df, thr, c) ==
    IF c > Len(df.cols) THEN <<>>
    ELSE IF Qualifies(df, c, thr)
         THEN <<df.cols[c]>> \o GroupColumnsFrom(df, thr, c + 1)
         ELSE GroupColumnsFrom(df, thr, c + 1)

identify_group_columns(df, null_threshold) ==
    IF Len(df.rows) = 0 THEN <<>>
    ELSE GroupColumnsFrom(df, null_threshold, 1)

InSeq(x, seq) == \E i \in 1..Len(seq) : seq[i] = x

\* which columns to forward-fill
fill_columns(df, cfg) ==
    IF cfg.given
    THEN SelectSeq(cfg.columns_to_fill, LAMBDA col : InSeq(col, df.cols))
    ELSE IF cfg.auto_detect
         THEN identify_group_columns(df, cfg.null_threshold)
         ELSE <<>>

ffill_cell_limit1(df, r, c) ==
    IF r > 1 /\ IsNa(df.rows[r][c]) THEN df.rows[r - 1][c] ELSE df.rows[r][c]

\* Series.ffill(): a null cell takes the nearest non-null cell above it, if any
ffill_cell(df, r, c) ==
    LET above == {j \in 1..r : ~IsNa(df.rows[j][c])}
    IN  IF above = {} THEN df.rows[r][c]
        ELSE df.rows[CHOOSE j \in above : \A j2 \in above : j2 <= j][c]


Occurrences(x, seq) == Cardinality({i \in 1..Len(seq) : seq[i] = x})

\* result_df[fill_columns] selects every position that carries a listed label, once
\* per listing; where a listed label repeats in the table or in the list, the
\* selection has more columns than the list has names, and whether the assignment
\* back accepts it depends on the pandas version and on the order of the names
RepeatedSelection(df, fc) ==
    \E i \in 1..Len(fc) : Occurrences(fc[i], df.cols) > 1 \/ Occurrences(fc[i], fc) > 1

\* no table: the call raised
RaisedTable == [cols |-> <<Raised>>, rows |-> <<>>]

\* result_df[fill_columns] = result_df[fill_columns].ffill(): the fill is by label,
\* so every position that carries a label of fill_columns is filled, or the
\* assignment raises ValueError ("Columns must be same length as key")
expand_merged_rows(df, cfg) ==
    LET fc == fill_columns(df, cfg)
    IN  IF RepeatedSelection(df, fc) /\ lib.setitem = "raises" THEN RaisedTable
        ELSE [cols |-> df.cols,
              rows |-> [r \in 1..Len(df.rows) |->
                          [c \in 1..Len(df.cols) |->
                             IF InSeq(df.cols[c], fc) THEN ffill_cell(df, r, c)
                             ELSE df.rows[r][c]]]]

----------------------------------------------------------------------------
(* core.py : date normaliser *)

NoDate == [ok |-> FALSE, y |-> 0, m |-> 0, d |-> 0]

DateOf(y, m, d) == [ok |-> TRUE, y |-> y, m |-> m, d |-> d]

IsLeap(y) == (y % 4 = 0 /\ y % 100 # 0) \/ y % 400 = 0

DaysInMonth(y, m) ==
    IF m = 2 THEN (IF IsLeap(y) THEN 29 ELSE 28)
    ELSE IF m \in {4, 6, 9, 11} THEN 30 ELSE 31

\* the number a digit string denotes
RECURSIVE StrToNat(_)
StrToNat(s) ==
    IF s = <<>> THEN 0
    ELSE 10 * StrToNat(SubSeq(s, 1, Len(s) - 1))
           + ((CHOOSE i \in 1..10 : Digits[i] = s[Len(s)]) - 1)

\* s.split(sep)
RECURSIVE Split(_, _)
Split(s, sep) ==
    LET at == Positions(s, {sep})
    IN  IF at = {} THEN <<s>>
        ELSE <<SubSeq(s, 1, MinOf(at) - 1)>> \o Split(SubSeq(s, MinOf(at) + 1, Len(s)), sep)

\* re.sub(r'[-.\s]+', '/', s): every run of '-', '.' and whitespace becomes one '/'
RECURSIVE NormalizeDelimiters(_)
NormalizeDelimiters(s) ==
    LET delim == {"-", "."} \cup Whitespace
    IN  IF s = <<>> THEN <<>>
        ELSE IF s[1] \in delim
             THEN IF Len(s) >= 2 /\ s[2] \in delim
                  THEN NormalizeDelimiters(Tail(s))
                  ELSE <<"/">> \o NormalizeDelimiters(Tail(s))
             ELSE <<s[1]>> \o NormalizeDelimiters(Tail(s))

MonthAbbr == << <<"j", "a", "n">>, <<"f", "e", "b">>, <<"m", "a", "r">>, <<"a", "p", "r">>,
                <<"m", "a", "y">>, <<"j", "u", "n">>, <<"j", "u", "l">>, <<"a", "u", "g">>,
                <<"s", "e", "p">>, <<"o", "c", "t">>, <<"n", "o", "v">>, <<"d", "e", "c">> >>

MonthFull == << <<"j", "a", "n", "u", "a", "r", "y">>, <<"f", "e", "b", "r", "u", "a", "r", "y">>,
                <<"m", "a", "r", "c", "h">>, <<"a", "p", "r", "i", "l">>, <<"m", "a", "y">>,
                <<"j", "u", "n", "e">>, <<"j", "u", "l", "y">>, <<"a", "u", "g", "u", "s", "t">>,
                <<"s", "e", "p", "t", "e", "m", "b", "e", "r">>,
                <<"o", "c", "t", "o", "b", "e", "r">>, <<"n", "o", "v", "e", "m", "b", "e", "r">>,
                <<"d", "e", "c", "e", "m", "b", "e", "r">> >>

\* the value of one strptime field, or -1 when the text is not in the field's language
\*   %d : 1..31, one or two digits      %m : 1..12, one or two digits
\*   %Y : exactly four digits           %y : exactly two digits (00..68 -> 20xx, else 19xx)
\*   %b / %B : month name, abbreviated / full, any case
FieldValue(directive, text) ==
    CASE directive = "d" ->
            IF Len(text) \in {1, 2} /\ AllDigits(text) /\ StrToNat(text) \in 1..31
            THEN StrToNat(text) ELSE -1
      [] directive = "m" ->
            IF Len(text) \in {1, 2} /\ AllDigits(text) /\ StrToNat(text) \in 1..12
            THEN StrToNat(text) ELSE -1
      [] directive = "Y" ->
            IF Len(text) = 4 /\ AllDigits(text) THEN StrToNat(text) ELSE -1
      [] directive = "y" ->
            IF Len(text) = 2 /\ AllDigits(text)
            THEN (IF StrToNat(text) <= 68 THEN 2000 + StrToNat(text) ELSE 1900 + StrToNat(text))
            ELSE -1
      [] directive = "b" ->
            IF \E i \in 1..12 : MonthAbbr[i] = Lower(text)
            THEN CHOOSE i \in 1..12 : MonthAbbr[i] = Lower(text) ELSE -1
      [] directive = "B" ->
            IF \E i \in 1..12 : MonthFull[i] = Lower(text)
            THEN CHOOSE i \in 1..12 : MonthFull[i] = Lower(text) ELSE -1

\* datetime.strptime(text, fmt) for a format of three '/'-separated directives; NoDate
\* where strptime raises ValueError
strptime(text, fmt) ==
    LET parts == Split(text, "/")
    IN  IF Len(parts) # 3 THEN NoDate
        ELSE LET v  == [i \in 1..3 |-> FieldValue(fmt[i], parts[i])]
                 iy == CHOOSE i \in 1..3 : fmt[i] \in {"Y", "y"}
                 im == CHOOSE i \in 1..3 : fmt[i] \in {"m", "b", "B"}
                 id == CHOOSE i \in 1..3 : fmt[i] = "d"
             IN  IF \E i \in 1..3 : v[i] = -1 THEN NoDate
                 ELSE IF v[iy] < 1 THEN NoDate
                 ELSE IF v[id] > DaysInMonth(v[iy], v[im]) THEN NoDate
                 ELSE DateOf(v[iy], v[im], v[id])

date_formats_month_first ==
    << <<"m", "d", "Y">>, <<"m", "d", "y">>, <<"d", "m", "Y">>, <<"d", "m", "y">>,
       <<"Y", "m", "d">>, <<"y", "m", "d">>, <<"d", "b", "Y">>, <<"d", "b", "y">>,
       <<"d", "B", "Y">>, <<"d", "B", "y">>, <<"b", "d", "Y">>, <<"B", "d", "Y">> >>

date_formats ==
    << <<"d", "m", "Y">>, <<"d", "m", "y">>, <<"Y", "m", "d">>, <<"y", "m", "d">>,
       <<"m", "d", "Y">>, <<"m", "d", "y">>, <<"d", "b", "Y">>, <<"d", "b", "y">>,
       <<"d", "B", "Y">>, <<"d", "B", "y">>, <<"b", "d", "Y">>, <<"B", "d", "Y">> >>

\* %Y of the C library's strftime: four digits, zero-padded, or (glibc) the year's
\* decimal digits without padding
YearText(y) == IF lib.year_padded THEN Pad4(y) ELSE IntToStr(y)

\* parsed.strftime("%d/%m/%Y")
strftime(date) == Pad2(date.d) \o <<"/">> \o Pad2(date.m) \o <<"/">> \o YearText(date.y)

RECURSIVE FirstFormat(_, _)
FirstFormat(normalized, i) ==
    IF i > Len(date_formats) THEN NoDate
    ELSE IF strptime(normalized, date_formats[i]).ok
         THEN strptime(normalized, date_formats[i])
         ELSE FirstFormat(normalized, i + 1)

\* pd.to_datetime(date_str, dayfirst=True), the permissive parser of the pandas
\* library, asked only about texts no format of date_formats parses. It raises (or
\* gives NaT) for a text that holds no digit and is not one of its keywords; what
\* it makes of any other text is the library's: lib.to_datetime, no date or a date
\* of the Timestamp range
pd_to_datetime(date_str) ==
    IF Positions(date_str, DigitSet) = {}
          /\ Lower(date_str) \notin {<<"n", "o", "w">>, <<"t", "o", "d", "a", "y">>}
    THEN NoDate
    ELSE lib.to_datetime

\* pd.isna of a list is an array, whose truth value the "if" cannot take once it
\* has two elements or more: ValueError
parse_date_to_ddmmyyyy(value) ==
    IF value.k = "none" THEN None
    ELSE IF value.k = "list" /\ value.n >= 2 THEN Raised
    ELSE IF IsNa(value) THEN None
    ELSE IF value.k \in {"datetime", "ts"}
         THEN StrV(strftime(DateOf(value.n \div 10000, (value.n \div 100) % 100, value.n % 100)))
    ELSE LET date_str   == Strip(Str(value))
             normalized == NormalizeDelimiters(date_str)
         IN  IF date_str = <<>>
                \/ Lower(date_str) \in {<<"n", "a", "n">>, <<"n", "a", "t">>,
                                        <<"n", "o", "n", "e">>}
             THEN None
             ELSE IF FirstFormat(normalized, 1).ok
                  THEN StrV(strftime(FirstFormat(normalized, 1)))
             ELSE IF pd_to_datetime(date_str).ok
                  THEN StrV(strftime(pd_to_datetime(date_str)))
             ELSE None

----------------------------------------------------------------------------
(* core.py : record transformer *)

\* a name of the mapping that is JSON null, missing or the empty string: every use
\* of field, stage and date_type tests only its truth value or compares it
NoName == ""

\* int(value): [ok, n]; not ok where int() raises ValueError or TypeError
py_int(value) ==
    CASE value.k = "int"   -> [ok |-> TRUE, n |-> value.n]
      [] value.k = "float" -> [ok |-> TRUE, n |-> value.n \div 10]
      [] value.k = "str"   ->
            LET t == Strip(value.s)
                neg == t # <<>> /\ t[1] = "-"
                digits == DropSign(t)
            IN  IF IsDigitPart(digits)
                THEN [ok |-> TRUE,
                      n |-> IF neg THEN 0 - StrToNat(RemoveChar(digits, "_"))
                                   ELSE StrToNat(RemoveChar(digits, "_"))]
                ELSE [ok |-> FALSE, n |-> 0]
      [] OTHER             -> [ok |-> FALSE, n |-> 0]

\* str(value) if value is not None else None
StrOrNone(value) == IF value.k = "none" THEN None ELSE StrV(Str(value))

\* Python truth of an optional string
Truthy(v) == v.k = "str" /\ v.s # <<>>

\* df.to_dict(orient="records") for one row: the (label, cell) items in label order;
\* a repeated label keeps its first position and its last cell
ToDict(cols, row) ==
    LET firsts == {c \in 1..Len(cols) : \A j \in 1..(c - 1) : cols[j] # cols[c]}
        lastOf(c) == CHOOSE j \in 1..Len(cols) :
                        /\ cols[j] = cols[c]
                        /\ \A j2 \in 1..Len(cols) : cols[j2] = cols[c] => j2 <= j
        F[c \in 0..Len(cols)] ==
            IF c = 0 THEN <<>>
            ELSE IF c \in firsts THEN Append(F[c - 1], <<cols[c], row[lastOf(c)]>>)
            ELSE F[c - 1]
    IN  F[Len(cols)]

LookupWithDefaultStage(mapping, column_name) ==
    LET col == mapping.columns[CHOOSE i \in 1..Len(mapping.columns) :
                                  /\ mapping.columns[i].column_name = column_name
                                  /\ \A j \in 1..Len(mapping.columns) :
                                        mapping.columns[j].column_name = column_name => j <= i]
    IN  [col EXCEPT !.stage = IF @ = "" THEN "fabric" ELSE @]

\* column_lookup = {col['column_name']: col for col in mapping['columns']}
InLookup(mapping, column_name) ==
    \E i \in 1..Len(mapping.columns) : mapping.columns[i].column_name = column_name

Lookup(mapping, column_name) ==
    mapping.columns[CHOOSE i \in 1..Len(mapping.columns) :
                       /\ mapping.columns[i].column_name = column_name
                       /\ \A j \in 1..Len(mapping.columns) :
                             mapping.columns[j].column_name = column_name => j <= i]

EmptyItem == [order_number |-> None, style |-> None, fabric |-> None, color |-> None,
              quantity |-> None]

EmptyDates == [fabric |-> None, cutting |-> None, sewing |-> None, shipping |-> None]

CanonicalStages == {"fabric", "cutting", "sewing", "shipping"}

SetStageOnce(stages, stage, field_name, value) ==
    LET cur == IF stage \in DOMAIN stages THEN stages[stage] ELSE <<>>
    IN  (stage :> (cur @@ (field_name :> value))) @@ stages

\* stages_data[stage][field_name] = value
SetStage(stages, stage, field_name, value) ==
    LET cur == IF stage \in DOMAIN stages THEN stages[stage] ELSE <<>>
    IN  (stage :> ((field_name :> value) @@ cur)) @@ stages

DateFieldNameWithoutType(date_type) == "date"

\* f"{date_type}_date" if date_type else 'date'
DateFieldName(date_type) ==
    CASE date_type = NoName    -> "date"
      [] date_type = "planned" -> "planned_date"
      [] date_type = "actual"  -> "actual_date"
      [] date_type = "unknown" -> "unknown_date"

QuantityUnsetOrZero(quantity) == quantity.k = "none" \/ quantity.n = 0

\* item_data['quantity'] is None
QuantityUnset(quantity) == quantity.k = "none"

\* one pass of the loop over row.items(): acc = [item, dates, stages]
Dispatch(acc, col_mapping, value) ==
    LET role      == col_mapping.role
        field     == col_mapping.field
        stage     == col_mapping.stage
        date_type == col_mapping.date_type
    IN  CASE role = "ignore" -> acc
          [] role = "identifier" ->
                CASE field = "order_number" ->
                        [acc EXCEPT !.item.order_number = StrOrNone(value)]
                  [] field = "style" ->
                        [acc EXCEPT !.item.style = StrOrNone(value)]
                  [] field = "fabric_spec" ->
                        [acc EXCEPT !.item.fabric = StrOrNone(value)]
                  [] field = "color" ->
                        [acc EXCEPT !.item.color = StrOrNone(value)]
                  [] OTHER -> acc
          [] role = "quantity" ->
                LET q == IF QuantityUnset(acc.item.quantity) /\ value.k # "none"
                         THEN (IF py_int(value).ok THEN IntV(py_int(value).n) ELSE None)
                         ELSE acc.item.quantity
                    a1 == [acc EXCEPT !.item.quantity = q]
                IN  IF stage # NoName
                    THEN [a1 EXCEPT !.stages =
                            SetStage(a1.stages, stage,
                                     IF field # NoName THEN field ELSE "quantity", value)]
                    ELSE a1
          [] role = "stage_date" ->
                LET parsed_date == parse_date_to_ddmmyyyy(value)
                IN  IF stage # NoName
                    THEN LET a1 == [acc EXCEPT !.stages =
                                       SetStage(acc.stages, stage,
                                                DateFieldName(date_type), parsed_date)]
                         IN  IF stage \in CanonicalStages
                             THEN [a1 EXCEPT !.dates[stage] = parsed_date]
                             ELSE a1
                    ELSE acc
          [] OTHER -> acc

\* for column_name, value in row.items(): the accumulator after each column is a
\* value of its own (bound once), as the loop's locals are
RECURSIVE RowLoop(_, _, _)
RowLoop(acc, items, mapping) ==
    IF items = <<>> THEN acc
    ELSE LET column_name == Head(items)[1]
             value       == Head(items)[2]
         IN  CHOOSE result \in
                 { RowLoop(next, rest, mapping) :
                     next \in { IF ~InLookup(mapping, column_name) THEN acc
                                ELSE Dispatch(acc, Lookup(mapping, column_name), value) },
                     rest \in { Tail(items) } } : TRUE

DefaultQuantityKept(quantity) == IF quantity.k = "none" THEN -1 ELSE quantity.n

\* if item_data['quantity'] is None: item_data['quantity'] = 0
DefaultQuantity(quantity) == IF quantity.k = "none" THEN 0 ELSE quantity.n

AnyDateKeys(dates_data) == \E st \in CanonicalStages : Truthy(StrV(<<st>>))

\* any(dates_data.values())
AnyDates(dates_data) == \E st \in CanonicalStages : Truthy(dates_data[st])

\* the record built from one row: [keep, item]
TransformRow(cols, row, mapping) ==
    CHOOSE result \in
        { LET anyDate == AnyDates(acc.dates)
          IN  [keep |-> Truthy(acc.item.order_number) /\ Truthy(acc.item.style),
               item |-> [order_number |-> acc.item.order_number,
                         style        |-> acc.item.style,
                         fabric       |-> acc.item.fabric,
                         color        |-> acc.item.color,
                         quantity     |-> DefaultQuantity(acc.item.quantity),
                         has_dates    |-> anyDate,
                         dates        |-> IF anyDate THEN acc.dates ELSE EmptyDates,
                         stages       |-> acc.stages]]
          : acc \in { RowLoop([item |-> EmptyItem, dates |-> EmptyDates, stages |-> <<>>],
                              ToDict(cols, row), mapping) } } : TRUE

\* for row in rows: ... objects.append(item), or continue where the gate rejects
\* the row; objects holds [row, item] for each row kept
RECURSIVE RowsLoop(_, _, _, _)
RowsLoop(objects, df, mapping, r) ==
    IF r > Len(df.rows) THEN objects
    ELSE CHOOSE result \in
             { RowsLoop(next, df, mapping, r + 1) :
                 next \in { LET t == TransformRow(df.cols, df.rows[r], mapping)
                            IN  IF t.keep THEN Append(objects, [row |-> r, item |-> t.item])
                                ELSE objects } } : TRUE

\* the rows that give a record, in row order
KeptRows(df, mapping) ==
    CHOOSE result \in
        { [i \in 1..Len(objects) |-> objects[i].row] :
            objects \in { RowsLoop(<<>>, df, mapping, 1) } } : TRUE

extract_and_transform_data(df, mapping) ==
    CHOOSE result \in
        { [i \in 1..Len(objects) |-> objects[i].item] :
            objects \in { RowsLoop(<<>>, df, mapping, 1) } } : TRUE

----------------------------------------------------------------------------
(* excel_utils.py : the processing pipeline with its info; core.py : the     *)
(* oracle adapter and the storage calls                                     *)

Shape(df) == <<Len(df.rows), Len(df.cols)>>

merge_excel_headers_with_info(df) ==
    CHOOSE result \in
        { [df   |-> result_df,
           info |-> [original_shape   |-> Shape(df),
                     header_row_count |-> detect_header_row_count(df),
                     result_shape     |-> Shape(result_df),
                     columns          |-> result_df.cols]]
          : result_df \in { merge_excel_headers(df) } } : TRUE

\* sum(null_counts_before.values()): one count per distinct label of fill_columns,
\* taken at the label's first position
RECURSIVE NullsBefore(_, _, _)
NullsBefore(df, fc, i) ==
    IF i > Len(fc) THEN 0
    ELSE IF \E j \in 1..(i - 1) : fc[j] = fc[i] THEN NullsBefore(df, fc, i + 1)
    ELSE NullCount(df, MinOf({c \in 1..Len(df.cols) : df.cols[c] = fc[i]}))
            + NullsBefore(df, fc, i + 1)

expand_merged_rows_with_info(df, cfg) ==
    CHOOSE result \in
        { [df   |-> expand_merged_rows(df, cfg),
           info |-> [raised         |-> expand_merged_rows(df, cfg) = RaisedTable,
                     columns_filled |-> fc,
                     rows_affected  |-> NullsBefore(df, fc, 1),
                     total_rows     |-> Len(df.rows)]]
          : fc \in { fill_columns(df, cfg) } } : TRUE

\* expand_rows=True, columns_to_fill=None, auto_detect=True, null_threshold=0.1
DefaultConfig == [given |-> FALSE, columns_to_fill |-> <<>>, auto_detect |-> TRUE,
                  null_threshold |-> <<1, 10>>]

process_excel_file_with_info(df0) ==
    CHOOSE result \in
        { [df   |-> e.df,
           info |-> [header_processing |-> h.info,
                     row_expansion     |-> e.info,
                     final_shape       |-> Shape(e.df),
                     final_columns     |-> e.df.cols]]
          : <<h, e>> \in { <<hh, expand_merged_rows_with_info(hh.df, DefaultConfig)>>
                           : hh \in { merge_excel_headers_with_info(df0) } } } : TRUE

Roles == {"identifier", "quantity", "stage_date", "ignore"}

\* self.json_output_parser.parse(data): the parsed object, or not ok where the
\* parser raises because the text is no JSON
parse_llm_response(data) ==
    IF data.kind = "json" THEN [ok |-> TRUE, mapping |-> data.mapping]
    ELSE [ok |-> FALSE, mapping |-> [valid |-> FALSE, columns |-> <<>>]]

\* ExtractionMetadataModel(...): final_columns and columns_filled are list[str]
MetadataValidates(info) ==
    /\ \A i \in 1..Len(info.final_columns) : info.final_columns[i].k = "str"
    /\ \A i \in 1..Len(info.row_expansion.columns_filled) :
          info.row_expansion.columns_filled[i].k = "str"

ExtractionMetadata(file_name, info, column_mapping) ==
    [file_name        |-> file_name,
     header_row_count |-> info.header_processing.header_row_count,
     original_shape   |-> info.header_processing.original_shape,
     final_shape      |-> info.final_shape,
     final_columns    |-> info.final_columns,
     columns_filled   |-> info.row_expansion.columns_filled,
     rows_affected    |-> info.row_expansion.rows_affected,
     column_mapping   |-> column_mapping]

----------------------------------------------------------------------------
(* Header run: detect_header_row_count and merge_excel_headers applied to a *)
(* raw grid                                                                *)

MaxSheetRows == 4

T(s) == StrV(s)

sFabric == <<"F", "a", "b", "r", "i", "c">>
sQty == <<"Q", "t", "y">>

\* rows of a four-column sheet, as pd.read_excel(header=None) delivers them
SheetRowPalette ==
    { <<NaN, NaN, NaN, NaN>>,
      <<NaN, NaN, T(<<"F", "a", "b", "r", "i", "c">>), NaN>>,
      <<T(<<" ", " ">>), NaN, T(<<"Q", "t", "y">>), T(<<" ", "F", "a", "b", "r", "i", "c">>)>>,
      <<IntV(2025), T(<<"N", "o", ".">>), T(<<"F", "a", "b", "r", "i", "c">>),
        T(<<"Q", "t", "y">>)>>,
      <<T(<<"P", "O", "-", "1">>), T(<<"S", "T", "Y", "-", "A">>), IntV(100), NaN>>,
      <<FloatV(125), DateTimeV(20250115), T(<<"1", ",", "2", "0", "0">>),
        T(<<"1", "5", "-", "0", "1", "-", "2", "4">>)>>,
      <<TimestampV(20250115), T(<<"2", "0", "2", "5", "-", "0", "1", "-", "1", "5">>),
        T(<<"1", "5", ".", "0", "1", ".", "2", "0", "2", "5", "1">>), T(<<"1", "e", "3">>)>> }

RawColumns == [c \in 1..4 |-> IntV(c - 1)]

Sheets ==
    UNION { { [cols |-> RawColumns, rows |-> rs] : rs \in [1..n -> SheetRowPalette] }
            : n \in 0..MaxSheetRows }

EmptyTable == [cols |-> <<>>, rows |-> <<>>]

HeaderIdle ==
    /\ sheet = EmptyTable
    /\ hpc = "idle"
    /\ hrc = 0
    /\ merged = EmptyTable

NoExpansionInfo == [raised |-> FALSE, columns_filled |-> <<>>, rows_affected |-> 0,
                    total_rows |-> 0]

ExpandIdle ==
    /\ etable = EmptyTable
    /\ ecfg = [given |-> FALSE, columns_to_fill |-> <<>>, auto_detect |-> FALSE,
               null_threshold |-> <<0, 1>>]
    /\ eout = EmptyTable
    /\ eout2 = EmptyTable
    /\ einfo = NoExpansionInfo
    /\ epc = "idle"

NoMapping == [valid |-> FALSE, columns |-> <<>>]

TransformIdle ==
    /\ tdf = EmptyTable
    /\ tmap = NoMapping
    /\ tout = <<>>
    /\ tsrc = <<>>
    /\ tpc = "idle"

\* the runtimes the parser may run on: a C library that pads %Y or does not, and a
\* pandas whose permissive parser gives no date, or some date, for the texts it is
\* asked about (1677-09-22 is the first day of the Timestamp range)
Libs == [year_padded : BOOLEAN,
         to_datetime : {NoDate, DateOf(2025, 1, 1), DateOf(1677, 9, 22)},
         setitem : {"all"}]

\* the runtimes of the expansion run: the assignment of a selection with repeated
\* labels fills every selected position, or raises
SetitemLibs ==
    { [year_padded |-> FALSE, to_datetime |-> NoDate, setitem |-> o]
        : o \in {"all", "raises"} }

\* the runtimes drawn where no year below 1000 is parsed
RecentYearLibs == {l \in Libs : ~l.year_padded /\ l.to_datetime.y # 1677}

DateIdle ==
    /\ dval = None
    /\ dout = None
    /\ dout2 = None
    /\ dpc = "idle"

IngestIdle ==
    /\ ipc = <<>>
    /\ ifile = <<>>
    /\ idf = <<>>
    /\ iinfo = <<>>
    /\ iprompt = <<>>
    /\ iresp = <<>>
    /\ imap = <<>>
    /\ iobjs = <<>>
    /\ ifail = <<>>
    /\ icalls = <<>>
    /\ db_items = <<>>
    /\ db_meta = <<>>

InitHeader ==
    /\ sheet \in Sheets
    /\ hpc = "loaded"
    /\ hrc = 0
    /\ merged = EmptyTable
    /\ ExpandIdle
    /\ TransformIdle
    /\ IngestIdle
    /\ DateIdle
    /\ lib \in {l \in RecentYearLibs : ~l.to_datetime.ok}

DetectHeaderRowCount ==
    /\ hpc = "loaded"
    /\ hrc' = detect_header_row_count(sheet)
    /\ hpc' = "detected"
    /\ UNCHANGED <<sheet, merged, expandVars, transformVars, ingestVars, dateVars, lib>>

MergeExcelHeaders ==
    /\ hpc = "detected"
    /\ merged' = merge_excel_headers(sheet)
    /\ hpc' = "merged"
    /\ UNCHANGED <<sheet, hrc, expandVars, transformVars, ingestVars, dateVars, lib>>

NextHeader == DetectHeaderRowCount \/ MergeExcelHeaders

SpecHeader == InitHeader /\ [][NextHeader]_vars

----------------------------------------------------------------------------
(* Expansion run: expand_merged_rows applied to a table, then to its own     *)
(* result, under one configuration                                          *)

MaxExpandRows == 3

sStyle == <<"S", "t", "y", "l", "e">>
sColor == <<"C", "o", "l", "o", "r">>
ExpandColumns == <<StrV(sStyle), StrV(sColor)>>

\* a table in which the label of the first column repeats on the second, as the
\* header merge gives for a merged header cell without sub-headers
RepeatedColumns == <<StrV(sStyle), StrV(sStyle), StrV(sColor)>>

\* cells of the Color column
ColorCells == {NaN, IntV(7)}

RepeatedRows ==
    {<<a, b, c>> : a \in {NaN, StrV(<<"A">>)}, b \in {NaN, StrV(<<"B">>)},
                   c \in ColorCells}

\* tables of up to MaxExpandRows rows, under two distinct labels or under the
\* repeated one
ExpandTables ==
    UNION { { [cols |-> ExpandColumns, rows |-> rs]
                : rs \in [1..n -> {<<a, b>> : a \in {NaN, StrV(<<"A">>), StrV(<<"B">>)},
                                              b \in ColorCells}] }
            \cup { [cols |-> RepeatedColumns, rows |-> rs]
                      : rs \in [1..n -> RepeatedRows] }
            : n \in 0..MaxExpandRows }

ExpandConfigs ==
    { [given |-> FALSE, columns_to_fill |-> <<>>, auto_detect |-> TRUE,
       null_threshold |-> t] : t \in { <<1, 10>>, <<1, 2>> } }
    \cup { [given |-> FALSE, columns_to_fill |-> <<>>, auto_detect |-> FALSE,
            null_threshold |-> <<1, 10>>] }
    \cup { [given |-> TRUE, columns_to_fill |-> l, auto_detect |-> TRUE,
            null_threshold |-> <<1, 10>>]
             : l \in { <<>>, <<StrV(sStyle)>>,
                       <<StrV(sColor), StrV(<<"G", "h", "o", "s", "t">>)>>,
                       <<StrV(sColor), StrV(sStyle)>>, <<StrV(sStyle), StrV(sColor)>> } }

InitExpand ==
    /\ etable \in ExpandTables
    /\ ecfg \in ExpandConfigs
    /\ eout = EmptyTable
    /\ eout2 = EmptyTable
    /\ einfo = NoExpansionInfo
    /\ epc = "loaded"
    /\ HeaderIdle
    /\ TransformIdle
    /\ IngestIdle
    /\ DateIdle
    /\ lib \in SetitemLibs

\* result_df, info = expand_merged_rows_with_info(df, ...), which hands df to
\* expand_merged_rows; where that raises there is neither table nor info
ExpandMergedRows ==
    /\ epc = "loaded"
    /\ \E e \in {expand_merged_rows_with_info(etable, ecfg)} :
          /\ eout' = e.df
          /\ einfo' = IF e.info.raised THEN [NoExpansionInfo EXCEPT !.raised = TRUE]
                       ELSE e.info
          /\ epc' = IF e.info.raised THEN "raised" ELSE "expanded"
    /\ UNCHANGED <<etable, ecfg, eout2, headerVars, transformVars, ingestVars, dateVars, lib>>

ExpandMergedRowsAgain ==
    /\ epc = "expanded"
    /\ \E out \in {expand_merged_rows(eout, ecfg)} :
          /\ eout2' = out
          /\ epc' = IF out = RaisedTable THEN "raised" ELSE "reexpanded"
    /\ UNCHANGED <<etable, ecfg, eout, einfo, headerVars, transformVars, ingestVars,
                   dateVars, lib>>

NextExpand == ExpandMergedRows \/ ExpandMergedRowsAgain

SpecExpand == InitExpand /\ [][NextExpand]_vars

----------------------------------------------------------------------------
(* Transform run: extract_and_transform_data applied to a table and a mapping *)

\* rows per table: each row is transformed with fresh locals, so one row shows
\* every case of a row
MaxTransformRows == 1

sOrderNo == <<"O", "r", "d", "e", "r", " ", "N", "o">>
sPO1 == <<"P", "O", "-", "1">>
sSTYA == <<"S", "T", "Y", "-", "A">>

sFabricPlan == <<"F", "a", "b", "r", "i", "c", " ", "P", "l", "a", "n">>
s150124 == <<"1", "5", "-", "0", "1", "-", "2", "4">>

TransformColumns == <<StrV(sOrderNo), StrV(sStyle), StrV(sQty), StrV(sFabricPlan)>>

TransformRowPalette ==
    { <<StrV(sPO1), StrV(sSTYA), IntV(100), StrV(s150124)>>,
      <<NaN, StrV(sSTYA), StrV(s150124), NaN>>,
      <<IntV(1001), None, FloatV(125), DateTimeV(20250115)>>,
      <<StrV(<<>>), StrV(sSTYA), NaN, NaN>>,
      <<StrV(<<" ", " ">>), StrV(sSTYA), StrV(<<"T", "B", "D">>), StrV(<<"T", "B", "D">>)>>,
      <<StrV(sPO1), StrV(sSTYA), StrV(<<"1", ",", "2", "0", "0">>), IntV(250)>>,
      <<StrV(sPO1), StrV(sSTYA), IntV(0), IntV(250)>> }

TransformTables ==
    UNION { { [cols |-> TransformColumns, rows |-> rs] : rs \in [1..n -> TransformRowPalette] }
            : n \in 0..MaxTransformRows }

Entry(name, role, field, stage, date_type) ==
    [column_name |-> name, role |-> role, field |-> field, stage |-> stage,
     date_type |-> date_type]

\* what the oracle may say about a column; role "skip" stands for leaving it out
EntryChoices(c) ==
    CASE c = 1 -> { Entry(StrV(sOrderNo), "identifier", "order_number", NoName, NoName),
                    Entry(StrV(sOrderNo), "identifier", "color", NoName, NoName),
                    Entry(StrV(sOrderNo), "identifier", "fabric", NoName, NoName),
                    Entry(StrV(sOrderNo), "ignore", NoName, NoName, NoName) }
      [] c = 2 -> { Entry(StrV(sStyle), "identifier", "style", NoName, NoName),
                    Entry(StrV(sStyle), "identifier", "order_number", NoName, NoName),
                    Entry(StrV(sStyle), "identifier", "fabric_spec", NoName, NoName) }
      [] c = 3 -> { Entry(StrV(sQty), "quantity", "order_quantity", NoName, NoName),
                    Entry(StrV(sQty), "quantity", NoName, "cutting", NoName),
                    Entry(StrV(sQty), "stage_date", NoName, "fabric", "planned"),
                    Entry(StrV(sQty), "stage_date", NoName, "fabric", "actual"),
                    Entry(StrV(sQty), "identifier", "style", NoName, NoName) }
      [] c = 4 -> { Entry(StrV(sFabricPlan), "stage_date", NoName, "fabric", "planned"),
                    Entry(StrV(sFabricPlan), "stage_date", NoName, "washing", NoName),
                    Entry(StrV(sFabricPlan), "quantity", NoName, "cutting", NoName),
                    Entry(StrV(sFabricPlan), "stage_date", NoName, NoName, "planned"),
                    Entry(StrV(sFabricPlan), "date", NoName, "fabric", "planned"),
                    Entry(StrV(sFabricPlan), "skip", NoName, NoName, NoName) }

TransformMappings ==
    { [valid |-> TRUE,
       columns |-> SelectSeq(<<e1, e2, e3, e4>>, LAMBDA e : e.role # "skip")]
      : e1 \in EntryChoices(1), e2 \in EntryChoices(2), e3 \in EntryChoices(3),
        e4 \in EntryChoices(4) }

InitTransform ==
    /\ tdf \in TransformTables
    /\ tmap \in TransformMappings
    /\ tout = <<>>
    /\ tsrc = <<>>
    /\ tpc = "loaded"
    /\ HeaderIdle
    /\ ExpandIdle
    /\ IngestIdle
    /\ DateIdle
    /\ lib \in RecentYearLibs

ExtractAndTransformData ==
    /\ tpc = "loaded"
    /\ tout' = extract_and_transform_data(tdf, tmap)
    /\ tsrc' = KeptRows(tdf, tmap)
    /\ tpc' = "done"
    /\ UNCHANGED <<tdf, tmap, headerVars, expandVars, ingestVars, dateVars, lib>>

NextTransform == ExtractAndTransformData

SpecTransform == InitTransform /\ [][NextTransform]_vars

----------------------------------------------------------------------------
(* Date run: parse_date_to_ddmmyyyy applied to a value, then to its own result *)

DateTokens ==
    { <<"3">>, <<"0", "4">>, <<"1", "3">>, <<"3", "1">>, <<"2", "9">>, <<"0", "2">>,
      <<"2", "5">>, <<"2", "0", "2", "5">>, <<"0", "0", "9", "9">>, <<"D", "e", "c">>,
      <<"F", "e", "b", "r", "u", "a", "r", "y">> }

DateSeparators == { <<"/">>, <<"-">>, <<".", " ">> }

\* three tokens with one separator between them
DateTexts == { a \o sep \o b \o sep \o c :
                  a \in DateTokens, b \in DateTokens, c \in DateTokens,
                  sep \in DateSeparators }

OtherTexts ==
    { <<>>, <<" ", " ">>, <<"T", "B", "D">>, <<"n", "a", "n">>, <<"N", "a", "T">>,
      <<"N", "o", "n", "e">>, <<"n", "o", "w">>, DateText(20250115),
      <<" ", "1", "5", "/", "0", "1", "/", "2", "0", "2", "4", " ">>,
      <<"1", "5", "/", "0", "1", "/", "2", "0", "2", "4", "/">>,
      <<"1", "5", "/", "0", "1">>, <<"2", "0", "2", "5", "0", "1", "1", "5">>,
      <<"1", ",", "2", "0", "0">>,
      <<"0", "3", "/", "0", "4", "/", "2", "0", "2", "5">>,
      <<"0", "4", "/", "1", "3", "/", "2", "0", "2", "5">> }

DateInputs ==
    { None, NaN, NaT, ListV(2), ListV(3), IntV(100), IntV(2025), FloatV(125),
      DateTimeV(20250115), DateTimeV(19000101), TimestampV(20241231) }
      \cup { StrV(t) : t \in DateTexts \cup OtherTexts }

InitDate ==
    /\ dval \in DateInputs
    /\ lib \in Libs
    /\ dout = None
    /\ dout2 = None
    /\ dpc = "loaded"
    /\ HeaderIdle
    /\ ExpandIdle
    /\ TransformIdle
    /\ IngestIdle

ParseDate ==
    /\ dpc = "loaded"
    /\ dout' = parse_date_to_ddmmyyyy(dval)
    /\ dpc' = "parsed"
    /\ UNCHANGED <<dval, dout2, lib, headerVars, expandVars, transformVars, ingestVars>>

ParseDateAgain ==
    /\ dpc = "parsed"
    /\ dout.k = "str"
    /\ dout2' = parse_date_to_ddmmyyyy(dout)
    /\ dpc' = "reparsed"
    /\ UNCHANGED <<dval, dout, lib, headerVars, expandVars, transformVars, ingestVars>>

NextDate == ParseDate \/ ParseDateAgain

SpecDate == InitDate /\ [][NextDate]_vars

----------------------------------------------------------------------------
(* Ingestion: parse_data_from_excel, one run per uploaded file, the runs      *)
(* interleaved at their steps                                               *)

Runs == {1, 2}

\* the grid of each run's file: one with two header rows, three data rows and a
\* grouped column, one without header rows
IngestFile(r) ==
    IF r = 1
    THEN [cols |-> RawColumns,
          rows |-> << <<T(<<"O", "r", "d", "e", "r">>), T(sStyle), T(<<"O", "r", "d", "e", "r">>),
                        T(sFabric)>>,
                      <<T(<<"N", "o", ".">>), T(<<"C", "o", "d", "e">>), T(sQty),
                        T(<<"P", "l", "a", "n">>)>>,
                      <<T(sPO1), T(sSTYA), IntV(100),
                        T(<<"1", "5", "-", "0", "1", "-", "2", "4">>)>>,
                      <<T(<<"P", "O", "-", "2">>), NaN, IntV(250), NaN>>,
                      <<T(<<"P", "O", "-", "3">>), NaN, IntV(250), NaN>> >>]
    ELSE [cols |-> RawColumns,
          rows |-> << <<T(<<"P", "O", "-", "9">>), T(<<"S", "T", "Y", "-", "Z">>), IntV(5),
                        NaN>> >>]

sOrderNoDot == <<"O", "r", "d", "e", "r", " ", "N", "o", ".">>
sStyleCode == <<"S", "t", "y", "l", "e", " ", "C", "o", "d", "e">>
sOrderQty == <<"O", "r", "d", "e", "r", " ", "Q", "t", "y">>

\* the other grid a run's file may hold: for run 1 three columns under the header
\* rows Order/Style/Order and No./Code/Qty, for run 2 six columns under the header
\* rows Order/Order/Style/Style/Qty/Qty and No./No/Code/Code/Order/Qty; both have the
\* one data row PO-1, STY-A, 100
AltIngestFile(r) ==
    IF r = 1
    THEN [cols |-> SubSeq(RawColumns, 1, 3),
          rows |-> << <<T(<<"O", "r", "d", "e", "r">>), T(sStyle),
                        T(<<"O", "r", "d", "e", "r">>)>>,
                      <<T(<<"N", "o", ".">>), T(<<"C", "o", "d", "e">>), T(sQty)>>,
                      <<T(sPO1), T(sSTYA), IntV(100)>> >>]
    ELSE [cols |-> RawColumns \o <<IntV(4), IntV(5)>>,
          rows |-> << <<T(<<"O", "r", "d", "e", "r">>), T(<<"O", "r", "d", "e", "r">>),
                        T(sStyle), T(sStyle), T(sQty), T(sQty)>>,
                      <<T(<<"N", "o", ".">>), T(<<"N", "o">>), T(<<"C", "o", "d", "e">>),
                        T(<<"C", "o", "d", "e">>), T(<<"O", "r", "d", "e", "r">>), T(sQty)>>,
                      <<T(sPO1), T(sSTYA), IntV(100), NaN, NaN, NaN>> >>]

\* num_samples_per_col = 2
num_samples_per_col == 2

\* no prompt built yet
NoPrompt == [raised |-> FALSE, columns |-> <<>>]

\* samples = list(non_null_vals); random.shuffle(samples); samples[:2], padded with ""
\* to two elements: every order of the distinct strings is a possible shuffle
Samples(non_null_vals) ==
    LET n == Cardinality(non_null_vals)
        shuffles == {p \in [1..n -> non_null_vals] :
                        \A i, j \in 1..n : p[i] = p[j] => i = j}
        taken(p) == SubSeq(p, 1, IF n < num_samples_per_col THEN n ELSE num_samples_per_col)
    IN  { taken(p) \o [i \in 1..(num_samples_per_col - Len(taken(p))) |-> <<>>] :
            p \in shuffles }

\* UserPromptTemplate.get_user_prompt, the column samples it puts into the prompt:
\* for col in df.columns, the distinct str() of the non-null values of df[col],
\* shuffled, cut to two and padded; under a repeated label df[col] is a table, which
\* has no unique(), and the call raises. The result is the set of possible outcomes.
get_user_prompt(df) ==
    LET non_null_vals(c) ==
            {Str(df.rows[r][c]) : r \in {q \in 1..Len(df.rows) : ~IsNa(df.rows[q][c])}}
        RECURSIVE From(_)
        From(c) ==
            IF c > Len(df.cols) THEN {<<>>}
            ELSE {<<[column_name |-> df.cols[c], sample_values |-> samples]>> \o rest :
                    samples \in Samples(non_null_vals(c)), rest \in From(c + 1)}
    IN  IF \E c \in 1..Len(df.cols) : Occurrences(df.cols[c], df.cols) > 1
        THEN {[raised |-> TRUE, columns |-> <<>>]}
        ELSE {[raised |-> FALSE, columns |-> columns] : columns \in From(1)}

\* the mapping an oracle that follows the contract gives, by column position:
\* order number, style, quantity, planned fabric date, and "ignore" beyond
GoodColumns(df) ==
    [c \in 1..Len(df.cols) |->
        CASE c = 1 -> Entry(df.cols[c], "identifier", "order_number", NoName, NoName)
          [] c = 2 -> Entry(df.cols[c], "identifier", "style", NoName, NoName)
          [] c = 3 -> Entry(df.cols[c], "quantity", "order_quantity", NoName, NoName)
          [] c = 4 -> Entry(df.cols[c], "stage_date", NoName, "fabric", "planned")
          [] OTHER -> Entry(df.cols[c], "ignore", NoName, NoName, NoName)]

\* a mapping that names three columns: Order No., Style Code and Order Qty
NamedColumns ==
    << Entry(T(sOrderNoDot), "identifier", "order_number", NoName, NoName),
       Entry(T(sStyleCode), "identifier", "style", NoName, NoName),
       Entry(T(sOrderQty), "quantity", "order_quantity", NoName, NoName) >>

\* what the oracle call may give: it raises, or it answers with text that is no
\* JSON, or with JSON: the contract's mapping, a mapping of three named columns
\* (which leaves the table's other columns out), a mapping with a role outside the
\* four, or an object without the "columns" key
OracleAnswers(df) ==
    { [kind |-> "raises", mapping |-> NoMapping],
      [kind |-> "text", mapping |-> NoMapping],
      [kind |-> "json", mapping |-> [valid |-> TRUE, columns |-> GoodColumns(df)]],
      [kind |-> "json", mapping |-> [valid |-> TRUE, columns |-> NamedColumns]],
      [kind |-> "json",
       mapping |-> [valid |-> TRUE,
                    columns |-> [GoodColumns(df) EXCEPT ![3].role = "date"]]],
      [kind |-> "json", mapping |-> NoMapping] }

NoInfo == [header_processing |-> [original_shape |-> <<0, 0>>, header_row_count |-> 0,
                                  result_shape |-> <<0, 0>>, columns |-> <<>>],
           row_expansion |-> [raised |-> FALSE, columns_filled |-> <<>>, rows_affected |-> 0,
                              total_rows |-> 0],
           final_shape |-> <<0, 0>>,
           final_columns |-> <<>>]

InitIngest ==
    /\ ipc = [r \in Runs |-> "start"]
    /\ ifile \in [Runs -> UNION {{IngestFile(r), AltIngestFile(r)} : r \in Runs}]
    /\ \A r \in Runs : ifile[r] \in {IngestFile(r), AltIngestFile(r), AltIngestFile(1)}
    /\ idf = [r \in Runs |-> EmptyTable]
    /\ iinfo = [r \in Runs |-> NoInfo]
    /\ iprompt = [r \in Runs |-> NoPrompt]
    /\ iresp = [r \in Runs |-> [kind |-> "none", mapping |-> NoMapping]]
    /\ imap = [r \in Runs |-> NoMapping]
    /\ iobjs = [r \in Runs |-> <<>>]
    /\ ifail = [r \in Runs |-> ""]
    /\ icalls = [r \in Runs |-> [create_many |-> 0, metadata |-> 0]]
    /\ db_items = <<>>
    /\ db_meta = <<>>
    /\ HeaderIdle
    /\ ExpandIdle
    /\ TransformIdle
    /\ DateIdle
    /\ lib \in RecentYearLibs

otherVars == <<headerVars, expandVars, transformVars, dateVars, lib>>

Fail(r, step) ==
    /\ ipc' = [ipc EXCEPT ![r] = "failed"]
    /\ ifail' = [ifail EXCEPT ![r] = step]

\* content = await excel_file.read(); df = pd.read_excel(...)
\* df, info = process_excel_file_with_info(df)
ReadAndProcess(r) ==
    /\ ipc[r] = "start"
    /\ \/ /\ \E p \in {process_excel_file_with_info(ifile[r])} :
                /\ idf' = [idf EXCEPT ![r] = p.df]
                /\ iinfo' = [iinfo EXCEPT ![r] = p.info]
          /\ ipc' = [ipc EXCEPT ![r] = "processed"]
          /\ UNCHANGED ifail
       \/ /\ Fail(r, "read")
          /\ UNCHANGED <<idf, iinfo>>
    /\ UNCHANGED <<ifile, iprompt, iresp, imap, iobjs, icalls, db_items, db_meta, otherVars>>

\* extract_mapping up to the oracle's answer: build_prompt samples the columns, which
\* raises under a repeated label, then self.chat_openai.invoke(messages)
InvokeOracle(r) ==
    /\ ipc[r] = "processed"
    /\ \E prompt \in get_user_prompt(idf[r]) :
          /\ iprompt' = [iprompt EXCEPT ![r] = prompt]
          /\ IF prompt.raised
             THEN /\ Fail(r, "prompt")
                  /\ UNCHANGED iresp
             ELSE \E a \in OracleAnswers(idf[r]) :
                      /\ iresp' = [iresp EXCEPT ![r] = a]
                      /\ IF a.kind = "raises"
                         THEN Fail(r, "oracle")
                         ELSE /\ ipc' = [ipc EXCEPT ![r] = "answered"]
                              /\ UNCHANGED ifail
    /\ UNCHANGED <<ifile, idf, iinfo, imap, iobjs, icalls, db_items, db_meta, otherVars>>

\* column_mapping = self.parse_llm_response(<the answer>.content); extract_mapping
\* returns or raises, and its prompt is gone with it
ParseLlmResponse(r) ==
    /\ ipc[r] = "answered"
    /\ iprompt' = [iprompt EXCEPT ![r] = NoPrompt]
    /\ IF parse_llm_response(iresp[r]).ok
       THEN /\ imap' = [imap EXCEPT ![r] = parse_llm_response(iresp[r]).mapping]
            /\ ipc' = [ipc EXCEPT ![r] = "mapped"]
            /\ UNCHANGED ifail
       ELSE /\ Fail(r, "parse")
            /\ UNCHANGED imap
    /\ UNCHANGED <<ifile, idf, iinfo, iresp, iobjs, icalls, db_items, db_meta, otherVars>>

\* objects = self.extract_and_transform_data(df, column_mapping); mapping['columns']
\* raises KeyError when the parsed object has no "columns"
ExtractAndTransform(r) ==
    /\ ipc[r] = "mapped"
    /\ IF imap[r].valid
       THEN /\ iobjs' = [iobjs EXCEPT ![r] = extract_and_transform_data(idf[r], imap[r])]
            /\ ipc' = [ipc EXCEPT ![r] = "transformed"]
            /\ UNCHANGED ifail
       ELSE /\ Fail(r, "transform")
            /\ UNCHANGED iobjs
    /\ UNCHANGED <<ifile, idf, iinfo, iprompt, iresp, imap, icalls, db_items, db_meta,
                   otherVars>>

InsertManyUncommitted(items, r, objects, k) == items

InsertManyReplacing(items, r, objects, k) ==
    [i \in 1..k |-> [run |-> r, item |-> objects[i]]]

\* insert_many(docs): the first k documents of the list reach the collection
InsertMany(items, r, objects, k) ==
    items \o [i \in 1..k |-> [run |-> r, item |-> objects[i]]]

\* metadata_repository.create(metadata): a single insert
MetadataCreate(meta, r, metadata) == Append(meta, [run |-> r, doc |-> metadata])

MayUpdateDatabaseAfterFailure(r) ==
    \/ ipc[r] = "transformed"
    \/ ipc[r] = "failed" /\ ifail[r] \in {"oracle", "parse"} /\ icalls[r].create_many = 0

\* update_database is reached only when every earlier statement of
\* parse_data_from_excel has returned
MayUpdateDatabase(r) == ipc[r] = "transformed"

\* await self.repository.create_many(objects): nothing is inserted for an empty
\* list; insert_many either inserts all documents, or raises with the documents
\* before the failing one inserted
CreateMany(r) ==
    /\ MayUpdateDatabase(r)
    /\ icalls' = [icalls EXCEPT ![r].create_many = @ + 1]
    /\ \/ /\ db_items' = InsertMany(db_items, r, iobjs[r], Len(iobjs[r]))
          /\ ipc' = [ipc EXCEPT ![r] = "stored"]
          /\ UNCHANGED ifail
       \/ /\ iobjs[r] # <<>>
          /\ \E k \in 0..(Len(iobjs[r]) - 1) :
                db_items' = InsertMany(db_items, r, iobjs[r], k)
          /\ Fail(r, "create_many")
    /\ UNCHANGED <<ifile, idf, iinfo, iprompt, iresp, imap, iobjs, db_meta, otherVars>>

\* metadata = ExtractionMetadataModel(...); await self.metadata_repository.create(metadata)
CreateMetadata(r) ==
    /\ ipc[r] = "stored"
    /\ IF ~MetadataValidates(iinfo[r])
       THEN /\ Fail(r, "metadata")
            /\ UNCHANGED <<icalls, db_meta>>
       ELSE /\ icalls' = [icalls EXCEPT ![r].metadata = @ + 1]
            /\ \/ /\ db_meta' = MetadataCreate(db_meta, r,
                                               ExtractionMetadata(r, iinfo[r], imap[r]))
                  /\ ipc' = [ipc EXCEPT ![r] = "done"]
                  /\ UNCHANGED ifail
               \/ /\ Fail(r, "metadata")
                  /\ UNCHANGED db_meta
    /\ UNCHANGED <<ifile, idf, iinfo, iprompt, iresp, imap, iobjs, db_items, otherVars>>

Next ==
    \E r \in Runs :
        \/ ReadAndProcess(r)
        \/ InvokeOracle(r)
        \/ ParseLlmResponse(r)
        \/ ExtractAndTransform(r)
        \/ CreateMany(r)
        \/ CreateMetadata(r)

Spec == InitIngest /\ [][Next]_vars

----------------------------------------------------------------------------
(* Claims about the header run *)

NonNullCells(row) == {c \in 1..Len(row) : ~IsNa(row[c])}

DataCells(row) == {c \in NonNullCells(row) : is_data_value(row[c])}

\* the fraction of non-null cells classified as data is >= 0.3
AtThreshold(row) ==
    /\ NonNullCells(row) # {}
    /\ 10 * Cardinality(DataCells(row)) >= 3 * Cardinality(NonNullCells(row))

\* C4: detect_header_row_count returns the zero-based index of the first row whose
\* fraction of non-null cells classified as data is >= 0.3: every row above it is
\* below the threshold (a row with no non-null cell too), the row at the index
\* reaches it, and the result is 0 when no row reaches it.
C4_FirstDataRow ==
    hpc \in {"detected", "merged"} =>
        /\ hrc \in 0..Len(sheet.rows)
        /\ \A r \in 1..hrc : ~AtThreshold(sheet.rows[r])
        /\ (\E r \in 1..Len(sheet.rows) : AtThreshold(sheet.rows[r]))
               => /\ hrc < Len(sheet.rows)
                  /\ AtThreshold(sheet.rows[hrc + 1])
        /\ (\A r \in 1..Len(sheet.rows) : ~AtThreshold(sheet.rows[r])) => hrc = 0

\* two rows skipped, one with no non-null cell and one holding a data cell below the
\* threshold, before a data row that has a null cell
C4_Witness ==
    /\ hpc = "detected"
    /\ hrc = 2
    /\ \E r \in 1..2 : NonNullCells(sheet.rows[r]) = {}
    /\ \E r \in 1..2 : DataCells(sheet.rows[r]) # {}
    /\ Cardinality(NonNullCells(sheet.rows[3])) < Len(sheet.rows[3])

\* C5: when the detected header_row_count is 0 (the first row is a data row, or no
\* row is a data row), merge_excel_headers returns the input table unchanged: same
\* rows, same cells, same column labels.
C5_ZeroHeaderRowsUnchanged ==
    (hpc = "merged" /\ hrc = 0) => merged = sheet

\* a sheet of several rows none of which is a data row, merged
C5_Witness ==
    /\ hpc = "merged"
    /\ hrc = 0
    /\ Len(sheet.rows) >= 2
    /\ \A r \in 1..Len(sheet.rows) : ~AtThreshold(sheet.rows[r])
    /\ \E r \in 1..Len(sheet.rows) : NonNullCells(sheet.rows[r]) # {}

\* the fragments of column c: the non-null, non-blank trimmed cells of the
\* left-to-right filled header rows, top to bottom
Fragments(c) == header_parts(sheet, hrc, c, 1)

\* the fragments that differ from the fragment right above them
Surviving(f) ==
    LET keep == {i \in 1..Len(f) : i = 1 \/ f[i] # f[i - 1]}
        G[i \in 0..Len(f)] ==
            IF i = 0 THEN <<>>
            ELSE IF i \in keep THEN Append(G[i - 1], f[i]) ELSE G[i - 1]
    IN  G[Len(f)]

\* C6: in every merged label a fragment equal to the fragment right above it is
\* dropped, a repeat that is not adjacent is kept, and the surviving fragments keep
\* their top-to-bottom order, joined by one space: Fabric, Fabric, Qty gives
\* "Fabric Qty" and Fabric, Qty, Fabric gives "Fabric Qty Fabric".
C6_ConsecutiveDuplicatesCollapse ==
    (hpc = "merged" /\ hrc >= 1) =>
        \A c \in 1..Len(sheet.cols) :
            LET f == Fragments(c)
            IN  /\ f # <<>> => merged.cols[c].s = JoinSpace(Surviving(f))
                /\ f = <<sFabric, sFabric, sQty>>
                       => merged.cols[c].s = sFabric \o <<" ">> \o sQty
                /\ f = <<sFabric, sQty, sFabric>>
                       => merged.cols[c].s = sFabric \o <<" ">> \o sQty \o <<" ">> \o sFabric

\* one sheet with a column of fragments Fabric, Fabric, Qty and a column of fragments
\* Fabric, Qty, Fabric
C6_Witness ==
    /\ hpc = "merged"
    /\ hrc = 3
    /\ \E c \in 1..Len(sheet.cols) : Fragments(c) = <<sFabric, sFabric, sQty>>
    /\ \E c \in 1..Len(sheet.cols) : Fragments(c) = <<sFabric, sQty, sFabric>>

\* a cell that is null or blank after trimming
EmptyCell(v) == IsNa(v) \/ Strip(Str(v)) = <<>>

\* C7 as stated: a column whose own cells are empty in all header rows is labelled
\* Column_<i>, i its zero-based position.
C7_AsStated ==
    (hpc = "merged" /\ hrc >= 1) =>
        \A c \in 1..Len(sheet.cols) :
            (\A r \in 1..hrc : EmptyCell(sheet.rows[r][c]))
                => merged.cols[c].s = <<"C", "o", "l", "u", "m", "n", "_">> \o IntToStr(c - 1)

\* in header row r, the nearest non-null cell at or to the left of column c is
\* missing or blank
NothingToInherit(r, c) ==
    LET left == {j \in 1..c : ~IsNa(sheet.rows[r][j])}
    IN  \/ left = {}
        \/ EmptyCell(sheet.rows[r][CHOOSE j \in left : \A j2 \in left : j2 <= j])

\* C7 (amended): a column for which, in every header row, the nearest non-null cell
\* at or to the left of it is missing or blank is labelled Column_<i>, i its
\* zero-based position; an empty header cell to the right of a label inherits that
\* label instead.
C7_PlaceholderAfterFill ==
    (hpc = "merged" /\ hrc >= 1) =>
        \A c \in 1..Len(sheet.cols) :
            (\A r \in 1..hrc : NothingToInherit(r, c))
                => merged.cols[c].s = <<"C", "o", "l", "u", "m", "n", "_">> \o IntToStr(c - 1)

\* a sheet with a labelled column to the right of two placeholder columns, one of
\* which is not the first
C7_Witness ==
    /\ hpc = "merged"
    /\ hrc >= 2
    /\ \E c \in 2..Len(sheet.cols) :
           /\ \A r \in 1..hrc : NothingToInherit(r, c)
           /\ merged.cols[c].s = <<"C", "o", "l", "u", "m", "n", "_">> \o IntToStr(c - 1)
    /\ \E c \in 1..Len(sheet.cols) : \E r \in 1..hrc : ~NothingToInherit(r, c)

\* C8: with header_row_count >= 1 the merged table has one label per grid column,
\* in column order, none of them the empty string; the number of columns is that of
\* the sheet and the data rows are the sheet's rows below the header rows, so their
\* number is the row count minus header_row_count.
C8_OneNonEmptyLabelPerColumn ==
    (hpc = "merged" /\ hrc >= 1) =>
        /\ Len(merged.cols) = Len(sheet.cols)
        /\ \A c \in 1..Len(merged.cols) :
               /\ merged.cols[c].k = "str"
               /\ merged.cols[c].s # <<>>
               /\ Fragments(c) # <<>> => merged.cols[c].s[1] = Fragments(c)[1][1]
        /\ Len(merged.rows) = Len(sheet.rows) - hrc
        /\ \A r \in 1..Len(merged.rows) : merged.rows[r] = sheet.rows[hrc + r]

\* header rows above at least two data rows, with a column that has no fragment
C8_Witness ==
    /\ hpc = "merged"
    /\ hrc >= 1
    /\ Len(merged.rows) >= 2
    /\ \E c \in 1..Len(sheet.cols) : Fragments(c) = <<>>
    /\ \E c \in 1..Len(sheet.cols) : Len(Fragments(c)) >= 2

----------------------------------------------------------------------------
(* Claims about the expansion run *)

\* the positions that were forward-filled
Filled == {c \in 1..Len(etable.cols) : InSeq(etable.cols[c], fill_columns(etable, ecfg))}

EntirelyEmpty(df, c) == \A r \in 1..Len(df.rows) : IsNa(df.rows[r][c])

NoNull(df, c) == \A r \in 1..Len(df.rows) : ~IsNa(df.rows[r][c])

\* C9 as stated: after expansion every forward-filled column, auto-detected or
\* listed explicitly, has a non-null first row and no null in any row, unless the
\* entire column was empty in the source.
C9_AsStated ==
    epc \in {"expanded", "reexpanded"} =>
        \A c \in Filled :
            EntirelyEmpty(etable, c) \/ NoNull(eout, c)

\* C9 (amended): after expansion every forward-filled column whose first row was
\* non-null in the source, which every auto-detected column is, has no null in any
\* row; a column filled because it was listed explicitly, or because it carries the
\* label of an auto-detected column, keeps the nulls above its first non-null value
\* and has no null from that row on.
C9_FilledFromFirstValue ==
    epc \in {"expanded", "reexpanded"} =>
        /\ \A c \in Filled :
              \A r \in 1..Len(eout.rows) :
                  IsNa(eout.rows[r][c]) <=> (\A j \in 1..r : IsNa(etable.rows[j][c]))
        /\ \A c \in Filled :
              (Len(etable.rows) >= 1 /\ ~IsNa(etable.rows[1][c])) => NoNull(eout, c)
        /\ ~ecfg.given =>
              \A c \in Filled :
                  \E c2 \in 1..Len(etable.cols) :
                      /\ etable.cols[c2] = etable.cols[c]
                      /\ Len(etable.rows) >= 1
                      /\ ~IsNa(etable.rows[1][c2])

\* an auto-detected column that had nulls and has none after expansion
C9_Witness ==
    /\ epc = "expanded"
    /\ ~ecfg.given
    /\ \E c \in Filled :
          /\ NullCount(etable, c) >= 2
          /\ NoNull(eout, c)
    /\ \E c \in 1..Len(etable.cols) :
          c \notin Filled /\ IsNa(etable.rows[1][c]) /\ ~EntirelyEmpty(etable, c)

\* C10: expansion is idempotent: under the same configuration (auto-detection with a
\* null_threshold, auto-detection off, or an explicit column list) expanding the
\* expanded table gives the expanded table, cell for cell.
C10_ExpandIdempotent ==
    epc = "reexpanded" => eout2 = eout

\* a second expansion of a table that the first expansion changed, both for
\* auto-detection and for an explicit list
C10_Witness ==
    /\ epc = "reexpanded"
    /\ eout # etable
    /\ ~ecfg.given
    /\ ecfg.null_threshold = <<1, 2>>
    /\ \E c \in 1..Len(etable.cols) :
          c \notin Filled /\ NullCount(etable, c) > 0 /\ ~IsNa(etable.rows[1][c])

----------------------------------------------------------------------------
(* Claims about the date run *)

\* C11: date normalisation is idempotent on its own output: where
\* parse_date_to_ddmmyyyy(x) is non-null, applying it to that result gives the same
\* result.
C11_NormalizeIdempotent ==
    dpc = "reparsed" => dout2 = dout

\* the text of the value, stripped and with its delimiter runs turned into '/'
Normalized == NormalizeDelimiters(Strip(Str(dval)))

\* the value is text that reaches the pattern loop
ReachesPatterns ==
    /\ dval.k = "str"
    /\ Strip(dval.s) # <<>>
    /\ Lower(Strip(dval.s)) \notin {<<"n", "a", "n">>, <<"n", "a", "t">>,
                                    <<"n", "o", "n", "e">>}

\* C12: parse_date_to_ddmmyyyy is total: for every value (null, NaN/NaT, native date,
\* number, any text, non-scalar) it returns null or a string and never raises, and a
\* value that no pattern and no fallback parses gives null.
C12_NeverRaises ==
    dpc # "loaded" =>
        /\ dout.k \in {"none", "str"}
        /\ (/\ ReachesPatterns
            /\ \A i \in 1..Len(date_formats) : ~strptime(Normalized, date_formats[i]).ok
            /\ ~pd_to_datetime(Strip(dval.s)).ok) => dout = None

\* the numeric patterns in the order the claim gives them
StatedOrder ==
    << <<"d", "m", "Y">>, <<"d", "m", "y">>, <<"Y", "m", "d">>, <<"y", "m", "d">>,
       <<"m", "d", "Y">>, <<"m", "d", "y">> >>

StatedMonthNames ==
    { <<"d", "b", "Y">>, <<"d", "b", "y">>, <<"d", "B", "Y">>, <<"d", "B", "y">>,
      <<"b", "d", "Y">>, <<"B", "d", "Y">> }

\* C13: for a textual date, after '-', '.' and whitespace runs are turned into '/',
\* the result is the parse under the first pattern that matches in the order
\* dd/mm/yyyy, dd/mm/yy, yyyy/mm/dd, yy/mm/dd, mm/dd/yyyy, mm/dd/yy, then the
\* month-name variants; 03/04/2025 gives 03/04/2025 (day 3, month 4), and a
\* month-first or month-name reading is the result only when no earlier pattern
\* parses.
C13_FirstPatternWins ==
    (dpc = "parsed" /\ ReachesPatterns) =>
        /\ \A i \in 1..Len(StatedOrder) :
              (/\ strptime(Normalized, StatedOrder[i]).ok
               /\ \A j \in 1..(i - 1) : ~strptime(Normalized, StatedOrder[j]).ok)
              => dout = StrV(strftime(strptime(Normalized, StatedOrder[i])))
        /\ (/\ \A i \in 1..Len(StatedOrder) : ~strptime(Normalized, StatedOrder[i]).ok
            /\ \E f \in StatedMonthNames : strptime(Normalized, f).ok)
              => \E f \in StatedMonthNames :
                    /\ strptime(Normalized, f).ok
                    /\ dout = StrV(strftime(strptime(Normalized, f)))
        /\ dval = StrV(<<"0", "3", "/", "0", "4", "/", "2", "0", "2", "5">>)
              => dout = StrV(<<"0", "3", "/", "0", "4", "/", "2", "0", "2", "5">>)

\* a text that reads as a date both day-first and month-first, with different dates,
\* was normalised day-first
C13_Witness ==
    /\ dpc = "parsed"
    /\ ReachesPatterns
    /\ strptime(Normalized, <<"d", "m", "Y">>).ok
    /\ strptime(Normalized, <<"m", "d", "Y">>).ok
    /\ strptime(Normalized, <<"d", "m", "Y">>) # strptime(Normalized, <<"m", "d", "Y">>)
    /\ dout = StrV(strftime(strptime(Normalized, <<"d", "m", "Y">>)))

\* text of the form dd/mm/yyyy: ten characters, digits around two '/'
IsDdMmYyyy(t) ==
    /\ Len(t) = 10
    /\ t[3] = "/"
    /\ t[6] = "/"
    /\ \A i \in {1, 2, 4, 5, 7, 8, 9, 10} : t[i] \in DigitSet

\* C14: every non-null result of parse_date_to_ddmmyyyy, for any input (native date,
\* any matching pattern, or the fallback parser), is exactly ten characters of the
\* form dd/mm/yyyy: zero-padded day, '/', zero-padded month, '/', four-digit year.
C14_TenCharacterResult ==
    (dpc # "loaded" /\ dout.k = "str") => IsDdMmYyyy(dout.s)

----------------------------------------------------------------------------
(* Claims about the transform run *)

\* the columns (positions) that supply an identifier field to a row
Suppliers(field) ==
    {c \in 1..Len(tdf.cols) :
        /\ InLookup(tmap, tdf.cols[c])
        /\ Lookup(tmap, tdf.cols[c]).role = "identifier"
        /\ Lookup(tmap, tdf.cols[c]).field = field}

\* the field is missing or empty in row r: no identifier column supplies it, or the
\* supplying cell (the last one in column order) is null, empty or blank
MissingIn(r, field) ==
    \/ Suppliers(field) = {}
    \/ EmptyCell(tdf.rows[r][CHOOSE c \in Suppliers(field) :
                                \A c2 \in Suppliers(field) : c2 <= c])

\* C1: extract_and_transform_data gives no record for a row whose order_number or
\* style is missing or empty (no identifier column supplies it, or the supplying
\* cell is null, blank or empty), whatever its other cells hold, and every record it
\* gives has a non-empty order_number and a non-empty style.
C1_NoRecordWithoutIdentifiers ==
    tpc = "done" =>
        /\ \A i \in 1..Len(tout) :
              /\ Truthy(tout[i].order_number)
              /\ Truthy(tout[i].style)
        /\ \A i \in 1..Len(tsrc) :
              /\ ~MissingIn(tsrc[i], "order_number")
              /\ ~MissingIn(tsrc[i], "style")

\* the columns (positions) the mapping gives the quantity role
QuantityColumns ==
    {c \in 1..Len(tdf.cols) :
        InLookup(tmap, tdf.cols[c]) /\ Lookup(tmap, tdf.cols[c]).role = "quantity"}

\* the records built from row r
RecordsOf(r) == {i \in 1..Len(tsrc) : tsrc[i] = r}

StageDateColumns ==
    {c \in 1..Len(tdf.cols) :
        /\ InLookup(tmap, tdf.cols[c])
        /\ Lookup(tmap, tdf.cols[c]).role = "stage_date"
        /\ Lookup(tmap, tdf.cols[c]).stage # NoName}

StageOf(c) == Lookup(tmap, tdf.cols[c]).stage

\* "<date_type>_date", or "date" when the date_type is absent
StatedFieldName(c) ==
    IF Lookup(tmap, tdf.cols[c]).date_type = NoName THEN "date"
    ELSE Lookup(tmap, tdf.cols[c]).date_type \o "_date"

\* the name a quantity column with a stage writes in that stage
QuantityFieldName(c) ==
    IF Lookup(tmap, tdf.cols[c]).field # NoName THEN Lookup(tmap, tdf.cols[c]).field
    ELSE "quantity"

\* record i holds value v for column c: in the stage's fields, and in dates when the
\* stage is one of the four
HoldsStageDate(i, c, v) ==
    /\ StageOf(c) \in DOMAIN tout[i].stages
    /\ StatedFieldName(c) \in DOMAIN tout[i].stages[StageOf(c)]
    /\ tout[i].stages[StageOf(c)][StatedFieldName(c)] = v

HoldsDate(i, c, v) ==
    StageOf(c) \in {"fabric", "cutting", "sewing", "shipping"} => tout[i].dates[StageOf(c)] = v

s15012024 == <<"1", "5", "/", "0", "1", "/", "2", "0", "2", "4">>

\* C16 as stated: for every stage_date column mapped to a stage, the normalised cell
\* is in the record under stages[stage].fields["<date_type>_date"] ("date" without a
\* date_type) and, for fabric, cutting, sewing and shipping, in dates.<stage> too.
C16_AsStated ==
    tpc = "done" =>
        \A i \in 1..Len(tout) : \A c \in StageDateColumns :
            /\ HoldsStageDate(i, c, parse_date_to_ddmmyyyy(tdf.rows[tsrc[i]][c]))
            /\ HoldsDate(i, c, parse_date_to_ddmmyyyy(tdf.rows[tsrc[i]][c]))

\* no column right of c writes the same field of the same stage
LastWriter(c) ==
    \A c2 \in (c + 1)..Len(tdf.cols) :
        \/ ~InLookup(tmap, tdf.cols[c2])
        \/ StageOf(c2) # StageOf(c)
        \/ /\ Lookup(tmap, tdf.cols[c2]).role = "stage_date"
           /\ StatedFieldName(c2) # StatedFieldName(c)
        \/ /\ Lookup(tmap, tdf.cols[c2]).role = "quantity"
           /\ QuantityFieldName(c2) # StatedFieldName(c)
        \/ Lookup(tmap, tdf.cols[c2]).role \notin {"stage_date", "quantity"}

\* no stage_date column right of c has the same stage
LastOfStage(c) == \A c2 \in StageDateColumns : c2 > c => StageOf(c2) # StageOf(c)

\* C16 (amended): the record holds, under stages[stage].fields["<date_type>_date"]
\* ("date" without a date_type), the normalised cell of the last column in column
\* order that writes that field of that stage, and in dates.<stage> (fabric, cutting,
\* sewing, shipping) the normalised cell of the last stage_date column of that stage;
\* such a column with stage fabric, date_type planned and cell 15-01-24 gives
\* "15/01/2024" in both.
C16_LastColumnWins ==
    tpc = "done" =>
        \A i \in 1..Len(tout) : \A c \in StageDateColumns :
            /\ LastWriter(c) =>
                  HoldsStageDate(i, c, parse_date_to_ddmmyyyy(tdf.rows[tsrc[i]][c]))
            /\ LastOfStage(c) =>
                  HoldsDate(i, c, parse_date_to_ddmmyyyy(tdf.rows[tsrc[i]][c]))
            /\ (/\ LastWriter(c)
                /\ StageOf(c) = "fabric"
                /\ Lookup(tmap, tdf.cols[c]).date_type = "planned"
                /\ tdf.rows[tsrc[i]][c] = StrV(s150124))
               => /\ tout[i].stages["fabric"]["planned_date"] = StrV(s15012024)
                  /\ tout[i].dates.fabric = StrV(s15012024)

\* a record built from a row whose fabric/planned column holds 15-01-24 has
\* "15/01/2024" as its planned_date and as dates.fabric
C16_Witness ==
    /\ tpc = "done"
    /\ \E i \in 1..Len(tout) : \E c \in StageDateColumns :
          /\ StageOf(c) = "fabric"
          /\ Lookup(tmap, tdf.cols[c]).date_type = "planned"
          /\ tdf.rows[tsrc[i]][c] = StrV(s150124)
          /\ HoldsStageDate(i, c, StrV(s15012024))
          /\ tout[i].dates.fabric = StrV(s15012024)

----------------------------------------------------------------------------
(* Claims about ingestion *)

\* the documents run r has in production_items
StoredBy(r) == SelectSeq(db_items, LAMBDA d : d.run = r)

\* C2: when the oracle call or the parsing of its answer fails, the ingestion invokes
\* neither create_many nor the metadata create and stores nothing; create_many is
\* invoked at most once per ingestion, and only when extract_and_transform_data has
\* returned the whole record list, of which the stored documents are a prefix.
C2_NoPersistenceBeforeTransform ==
    \A r \in Runs :
        /\ ifail[r] \in {"oracle", "parse"} =>
              /\ icalls[r].create_many = 0
              /\ icalls[r].metadata = 0
              /\ StoredBy(r) = <<>>
              /\ \A i \in 1..Len(db_meta) : db_meta[i].run # r
        /\ icalls[r].create_many <= 1
        /\ icalls[r].create_many = 0 => StoredBy(r) = <<>>
        /\ icalls[r].create_many = 1 =>
              /\ iresp[r].kind = "json"
              /\ imap[r].valid
              /\ iobjs[r] = extract_and_transform_data(idf[r], imap[r])
              /\ Len(StoredBy(r)) <= Len(iobjs[r])
              /\ \A i \in 1..Len(StoredBy(r)) : StoredBy(r)[i].item = iobjs[r][i]

\* one ingestion stopped at a failed oracle call or a failed parse while the other
\* invoked create_many and stored its records
C2_Witness ==
    \E r1 \in Runs, r2 \in Runs :
        /\ ifail[r1] \in {"oracle", "parse"}
        /\ icalls[r2].create_many = 1
        /\ StoredBy(r2) # <<>>
        /\ Len(StoredBy(r2)) = Len(iobjs[r2])

\* the answer is JSON that leaves out a column of the request, or gives a column a
\* role outside the four
SchemaInvalid(r) ==
    /\ iresp[r].kind = "json"
    /\ \/ \E c \in 1..Len(idf[r].cols) : ~InLookup(iresp[r].mapping, idf[r].cols[c])
       \/ \E i \in 1..Len(iresp[r].mapping.columns) :
             iresp[r].mapping.columns[i].role \notin Roles

\* C3: the classifier fails with a schema error when the answer leaves out a column of
\* the request or gives a column a role outside identifier, quantity, stage_date and
\* ignore, and with a parse error when the answer is not structured output; in none of
\* these cases does a mapping reach the record transformer.
C3_InvalidAnswerNeverMapped ==
    \A r \in Runs :
        /\ (iresp[r].kind = "text" /\ ipc[r] # "answered") =>
              ipc[r] = "failed" /\ ifail[r] = "parse" /\ imap[r] = NoMapping
        /\ (SchemaInvalid(r) /\ ipc[r] # "answered") =>
              ipc[r] = "failed" /\ ifail[r] = "schema" /\ imap[r] = NoMapping

\* run r has got its record list from extract_and_transform_data
Transformed(r) ==
    \/ ipc[r] \in {"transformed", "stored", "done"}
    \/ ipc[r] = "failed" /\ ifail[r] \in {"create_many", "metadata"}

\* the mapping of the three named columns to order number, style and quantity
NamedMapping == [valid |-> TRUE, columns |-> NamedColumns]

\* the record list is one record PO-1, STY-A, 100
OneStatedRecord(objects) ==
    /\ Len(objects) = 1
    /\ objects[1].order_number = T(sPO1)
    /\ objects[1].style = T(sSTYA)
    /\ objects[1].quantity = 100

\* the metadata documents run r has stored
MetadataBy(r) == SelectSeq(db_meta, LAMBDA d : d.run = r)

\* C17 as stated: the sheet whose header rows are Order/Order/Style/Style/Qty/Qty and
\* No./No/Code/Code/Order/Qty, followed by the data row PO-1, STY-A, 100, has 2 header
\* rows, the merged header Order No., Style Code, Order Qty and, under the mapping of
\* those three labels to order number, style and quantity, exactly one record with
\* order_number PO-1, style STY-A and quantity 100.
C17_AsStated ==
    \A r \in Runs :
        (ifile[r] = AltIngestFile(2) /\ ipc[r] # "start" /\ ifail[r] # "read") =>
            /\ iinfo[r].header_processing.header_row_count = 2
            /\ idf[r].cols = <<T(sOrderNoDot), T(sStyleCode), T(sOrderQty)>>
            /\ ifail[r] # "prompt"
            /\ (imap[r] = NamedMapping /\ Transformed(r)) => OneStatedRecord(iobjs[r])

sQtyOrder == <<"Q", "t", "y", " ", "O", "r", "d", "e", "r">>

\* C17 amended: the three-column sheet with header rows Order/Style/Order and
\* No./Code/Qty and the data row PO-1, STY-A, 100 has 2 header rows, the merged header
\* Order No., Style Code, Order Qty and, under the mapping of those three labels to
\* order number, style and quantity, exactly one record PO-1, STY-A, 100; the
\* six-column sheet of the statement has 2 header rows and the merged header
\* Order No., Order No, Style Code, Style Code, Qty Order, Qty, and its ingestion ends
\* where the prompt is built, without a mapping, a record or a stored document.
C17_ThreeColumnSheet ==
    \A r \in Runs :
        /\ (ifile[r] = AltIngestFile(1) /\ ipc[r] # "start" /\ ifail[r] # "read") =>
              /\ iinfo[r].header_processing.header_row_count = 2
              /\ idf[r].cols = <<T(sOrderNoDot), T(sStyleCode), T(sOrderQty)>>
              /\ ifail[r] # "prompt"
              /\ (imap[r] = NamedMapping /\ Transformed(r)) => OneStatedRecord(iobjs[r])
        /\ (ifile[r] = AltIngestFile(2) /\ ipc[r] # "start" /\ ifail[r] # "read") =>
              /\ iinfo[r].header_processing.header_row_count = 2
              /\ idf[r].cols = <<T(sOrderNoDot), T(sOrderNo), T(sStyleCode), T(sStyleCode),
                                 T(sQtyOrder), T(sQty)>>
              /\ ipc[r] = "failed" => ifail[r] = "prompt"
              /\ ipc[r] \in {"processed", "failed"}
              /\ imap[r] = NoMapping /\ iobjs[r] = <<>>
              /\ StoredBy(r) = <<>> /\ MetadataBy(r) = <<>>

\* the three-column sheet has been transformed under the mapping of the three named
\* columns, and the ingestion of the six-column sheet has ended at the prompt
C17_Witness ==
    /\ ifile[1] = AltIngestFile(1) /\ imap[1] = NamedMapping /\ Transformed(1)
    /\ ifile[2] = AltIngestFile(2) /\ ifail[2] = "prompt"

\* what the ingestion of run r's file gives when nothing else runs: the processed
\* table and its info, and under the run's own oracle answer the record list and the
\* metadata document
Alone(r) ==
    LET p == process_excel_file_with_info(ifile[r])
        mapping == iresp[r].mapping
    IN  [df |-> p.df,
         mapping |-> mapping,
         objects |-> IF mapping.valid THEN extract_and_transform_data(p.df, mapping)
                     ELSE <<>>,
         metadata |-> ExtractionMetadata(r, p.info, mapping)]

\* C18: two ingestion runs of different files, interleaved in any order at their
\* suspension points, share no mutable state: the table, the mapping and the record
\* list of a run are those of its own file and its own oracle answer, the records a run
\* has stored are a prefix of its own record list and the whole list once create_many
\* has returned, and the metadata it has stored is the document of its own run, stored
\* once when the run completes.
C18_RunsIsolated ==
    \A r \in Runs :
        LET alone == Alone(r)
            stored == StoredBy(r)
        IN  /\ idf[r] \in {EmptyTable, alone.df}
            /\ imap[r] \in {NoMapping, alone.mapping}
            /\ iobjs[r] \in {<<>>, alone.objects}
            /\ Len(stored) <= Len(alone.objects)
            /\ \A i \in 1..Len(stored) : stored[i].item = alone.objects[i]
            /\ (ipc[r] \in {"stored", "done"} \/ ifail[r] = "metadata") =>
                  Len(stored) = Len(alone.objects)
            /\ \A i \in 1..Len(MetadataBy(r)) : MetadataBy(r)[i].doc = alone.metadata
            /\ Len(MetadataBy(r)) = (IF ipc[r] = "done" THEN 1 ELSE 0)

\* both runs, of different files, have completed with records stored, run 2's records
\* before run 1's and run 1's metadata before run 2's
C18_Witness ==
    /\ ifile[1] # ifile[2]
    /\ ipc[1] = "done" /\ ipc[2] = "done"
    /\ StoredBy(1) # <<>> /\ StoredBy(2) # <<>>
    /\ db_items[1].run = 2
    /\ db_meta[1].run = 1

\* column c of out is column c of df forward-filled: a non-null cell is kept, a null
\* cell holds the nearest non-null cell above it, and stays null where there is none
ForwardFilled(df, out, c) ==
    /\ Len(out.rows) = Len(df.rows)
    /\ \A r \in 1..Len(df.rows) :
          LET above == {j \in 1..r : ~IsNa(df.rows[j][c])}
          IN  IF above = {} THEN out.rows[r][c] = df.rows[r][c]
              ELSE \E j \in above :
                      /\ \A j2 \in above : j2 <= j
                      /\ out.rows[r][c] = df.rows[j][c]

\* column c of out is column c of df, cell for cell
LeftAsItWas(df, out, c) ==
    /\ Len(out.rows) = Len(df.rows)
    /\ \A r \in 1..Len(df.rows) : out.rows[r][c] = df.rows[r][c]

\* null_threshold <= null ratio < 1.0 and a non-null first row, for the threshold
\* thr[1] / thr[2]
StatedGroupColumn(df, c, thr) ==
    LET nulls == {r \in 1..Len(df.rows) : df.rows[r][c].k \in {"nan", "none", "nat"}}
    IN  /\ Len(df.rows) > 0
        /\ thr[1] * Len(df.rows) <= thr[2] * Cardinality(nulls)
        /\ Cardinality(nulls) < Len(df.rows)
        /\ 1 \notin nulls

\* C19: in auto-detect mode (no explicit column list), for every column position of
\* the table, the column is forward-filled if and only if its null ratio r satisfies
\* null_threshold <= r < 1.0 and its first row is non-null; every other column is
\* left exactly as it was, and an empty table yields no group column.
C19_AutoDetectByPosition ==
    (epc # "loaded" /\ ~ecfg.given /\ ecfg.auto_detect) =>
        /\ epc # "raised"
        /\ \A c \in 1..Len(etable.cols) :
              IF StatedGroupColumn(etable, c, ecfg.null_threshold)
              THEN ForwardFilled(etable, eout, c)
              ELSE LeftAsItWas(etable, eout, c)
        /\ Len(etable.rows) = 0 => einfo.columns_filled = <<>>

\* C20: when an explicit column list is given, auto-detection is not run: exactly the
\* listed columns that exist in the table are forward-filled regardless of their null
\* ratio and first-row value, listed names absent from the table are ignored without
\* error, and columns_filled reports exactly the listed-and-present columns.
C20_ExplicitListOnly ==
    (epc # "loaded" /\ ecfg.given) =>
        LET listed == {ecfg.columns_to_fill[i] : i \in 1..Len(ecfg.columns_to_fill)}
            present == {etable.cols[c] : c \in 1..Len(etable.cols)}
        IN  /\ epc # "raised"
            /\ \A c \in 1..Len(etable.cols) :
                  IF etable.cols[c] \in listed
                  THEN ForwardFilled(etable, eout, c)
                  ELSE LeftAsItWas(etable, eout, c)
            /\ {einfo.columns_filled[i] : i \in 1..Len(einfo.columns_filled)}
                   = listed \cap present

\* the quantity columns whose cell in row r is not None and parses as an integer
ParsedQuantityColumns(r) ==
    {c \in QuantityColumns : tdf.rows[r][c].k # "none" /\ py_int(tdf.rows[r][c]).ok}

\* column c2 writes field name of stage in the stage data
WritesStageField(c2, stage, name) ==
    /\ InLookup(tmap, tdf.cols[c2])
    /\ Lookup(tmap, tdf.cols[c2]).stage = stage
    /\ \/ Lookup(tmap, tdf.cols[c2]).role = "stage_date" /\ StatedFieldName(c2) = name
       \/ Lookup(tmap, tdf.cols[c2]).role = "quantity" /\ QuantityFieldName(c2) = name

PopulatingColumns(r) ==
    {c \in StageDateColumns :
        /\ StageOf(c) \in {"fabric", "cutting", "sewing", "shipping"}
        /\ LastOfStage(c)
        /\ parse_date_to_ddmmyyyy(tdf.rows[r][c]).k = "str"}

\* C22: a record has its canonical-dates record exactly when, for its row, at least
\* one of the four canonical stage dates (fabric, cutting, sewing, shipping) holds a
\* non-null normalised date; otherwise dates is null; a stage_date column of any
\* other stage never affects dates, and a canonical stage without a date is null in
\* the dates record.
C22_DatesIffCanonicalDate ==
    tpc = "done" =>
        \A i \in 1..Len(tout) :
            /\ tout[i].has_dates <=> PopulatingColumns(tsrc[i]) # {}
            /\ \A st \in {"fabric", "cutting", "sewing", "shipping"} :
                  (\A c \in PopulatingColumns(tsrc[i]) : StageOf(c) # st)
                      => tout[i].dates[st] = None

\* a record without a dates record, although its row has a stage_date column of
\* another stage (washing) whose cell normalises to a date
C22_Witness ==
    /\ tpc = "done"
    /\ \E i \in 1..Len(tout) :
          /\ ~tout[i].has_dates
          /\ \E c \in StageDateColumns :
                /\ StageOf(c) = "washing"
                /\ parse_date_to_ddmmyyyy(tdf.rows[tsrc[i]][c]).k = "str"

\* the identifier columns routed to attribute field that no later identifier column
\* of the same field follows
IdentifierColumns(field) ==
    {c \in 1..Len(tdf.cols) :
        /\ InLookup(tmap, tdf.cols[c])
        /\ Lookup(tmap, tdf.cols[c]).role = "identifier"
        /\ Lookup(tmap, tdf.cols[c]).field = field
        /\ \A c2 \in (c + 1)..Len(tdf.cols) :
              ~(/\ InLookup(tmap, tdf.cols[c2])
                /\ Lookup(tmap, tdf.cols[c2]).role = "identifier"
                /\ Lookup(tmap, tdf.cols[c2]).field = field)}

\* the attribute of a record that a field names
Attribute(item, field) ==
    CASE field = "order_number" -> item.order_number
      [] field = "style"        -> item.style
      [] field = "fabric"       -> item.fabric
      [] field = "color"        -> item.color

\* C23: an identifier column is routed by its field to the record attribute of the
\* same name (order_number, style, fabric, color): the attribute is the cell as a
\* string, and null where the cell is null, never a non-empty string made of a null.
C23_IdentifierRouting ==
    tpc = "done" =>
        \A i \in 1..Len(tout) :
            \A field \in {"order_number", "style", "fabric", "color"} :
                \A c \in IdentifierColumns(field) :
                    Attribute(tout[i], field) =
                        IF tdf.rows[tsrc[i]][c].k \in {"nan", "none", "nat"} THEN None
                        ELSE StrV(Str(tdf.rows[tsrc[i]][c]))

\* the rules as stated, on the trimmed string form of a value that is neither null
\* nor of a numeric or date/time type
StatedTextIsData(text) ==
    /\ text # <<>>
    /\ \/ IsPyFloat(RemoveChar(text, ","))
       \/ MatchesDatePattern(text, <<1, 2, 1, 2, 2, 4>>)
       \/ MatchesDatePattern(text, <<4, 4, 1, 2, 1, 2>>)
       \/ MatchesDatePattern(text, <<1, 2, 1, 2, 2, 2>>)

\* C24: is_data_value applies its rules in order: null gives false; a numeric-typed
\* value gives true; a date/time-typed value gives true; otherwise the trimmed string
\* gives false when empty, true when it parses as a number once the thousands
\* separators are removed, true when it matches one of the three date-like patterns,
\* and false otherwise. Checked on every cell of the sheet the detector has read.
C24_DataValueRules ==
    hpc \in {"detected", "merged"} =>
        \A r \in 1..Len(sheet.rows) : \A c \in 1..Len(sheet.cols) :
            LET value == sheet.rows[r][c]
            IN  is_data_value(value) =
                    CASE value.k \in {"nan", "none", "nat"} -> FALSE
                      [] value.k \in {"int", "float"}        -> TRUE
                      [] value.k \in {"ts", "datetime"}      -> TRUE
                      [] OTHER -> StatedTextIsData(Strip(Str(value)))

\* the non-null values of column c of df
NonNullValues(df, c) ==
    {df.rows[q][c] : q \in {q \in 1..Len(df.rows) : ~IsNa(df.rows[q][c])}}

\* run r's extract_mapping has built its prompt, or raised building it
Prompted(r) == ipc[r] = "answered" \/ ifail[r] \in {"prompt", "oracle"}

\* the samples of a column: two of them, the non-empty ones first, pairwise distinct,
\* each the string form of a non-null value of the column, and as many as the column
\* has distinct non-null values, up to two
StatedSamples(df, c, samples) ==
    LET filled == {i \in 1..Len(samples) : samples[i] # <<>>}
        values == NonNullValues(df, c)
    IN  /\ Len(samples) = num_samples_per_col
        /\ \A i, j \in filled : samples[i] = samples[j] => i = j
        /\ \A i \in filled : \E v \in values : samples[i] = Str(v)
        /\ Cardinality(filled) = IF Cardinality(values) < 2 THEN Cardinality(values) ELSE 2
        /\ \A i \in 1..Len(samples) : i \notin filled => \A j \in filled : j < i

\* C25: for every column of the table the column sampler emits exactly one entry,
\* whose sample list has exactly 2 elements: the non-empty ones are pairwise distinct
\* string forms of non-null values of the column, there are min(2, number of distinct
\* non-null values) of them, and the rest is padding of empty strings.
C25_ColumnSamples ==
    \A r \in Runs :
        Prompted(r) =>
            /\ ~iprompt[r].raised
            /\ Len(iprompt[r].columns) = Len(idf[r].cols)
            /\ \A c \in 1..Len(idf[r].cols) :
                  /\ iprompt[r].columns[c].column_name = idf[r].cols[c]
                  /\ StatedSamples(idf[r], c, iprompt[r].columns[c].sample_values)

\* the stage_date columns of c's stage, and those of them with c's date_type
SameStage(c) == {c2 \in StageDateColumns : StageOf(c2) = StageOf(c)}

SameStageAndType(c) ==
    {c2 \in SameStage(c) :
        Lookup(tmap, tdf.cols[c2]).date_type = Lookup(tmap, tdf.cols[c]).date_type}

\* the rightmost column of a set of columns
LastOf(columns) == CHOOSE c \in columns : \A c2 \in columns : c2 <= c

\* C26: when several stage_date columns map to the same stage, the last in column
\* order wins: stages[stage]["<date_type>_date"] holds the normalised value of the last
\* column with that stage and date_type, and dates.<stage> holds the normalised value
\* of the last stage_date column of that stage whatever its date_type, also when that
\* value is null and an earlier column had a date.
C26_LastDateColumnWins ==
    tpc = "done" =>
        \A i \in 1..Len(tout) : \A c \in StageDateColumns :
            Cardinality(SameStage(c)) > 1 =>
                LET lastTyped == LastOf(SameStageAndType(c))
                    last      == LastOf(SameStage(c))
                IN  /\ HoldsStageDate(i, lastTyped,
                                      parse_date_to_ddmmyyyy(tdf.rows[tsrc[i]][lastTyped]))
                    /\ StageOf(c) \in CanonicalStages =>
                          tout[i].dates[StageOf(c)] =
                              parse_date_to_ddmmyyyy(tdf.rows[tsrc[i]][last])

\* a record of a row with two stage_date columns of one stage and different date
\* types, the earlier with a date and the later null: both fields are in the stage and
\* the canonical date is null
C26_Witness ==
    /\ tpc = "done"
    /\ \E i \in 1..Len(tout) : \E c \in StageDateColumns :
          LET last == LastOf(SameStage(c))
          IN  /\ c < last
              /\ SameStageAndType(c) = {c}
              /\ StageOf(c) \in CanonicalStages
              /\ parse_date_to_ddmmyyyy(tdf.rows[tsrc[i]][c]) # None
              /\ parse_date_to_ddmmyyyy(tdf.rows[tsrc[i]][last]) = None
              /\ HoldsStageDate(i, c, parse_date_to_ddmmyyyy(tdf.rows[tsrc[i]][c]))
              /\ HoldsStageDate(i, last, None)
              /\ tout[i].dates[StageOf(c)] = None

\* table df without its column c
RemoveColumn(df, c) ==
    LET Without(seq) == [j \in 1..(Len(seq) - 1) |-> IF j < c THEN seq[j] ELSE seq[j + 1]]
    IN  [cols |-> Without(df.cols), rows |-> [r \in 1..Len(df.rows) |-> Without(df.rows[r])]]

\* column c is absent from the mapping, has role ignore or a role outside the four,
\* is an identifier whose field is none of the routed ones, or is a stage_date column
\* without a stage: every entry of the mapping that names it is of that kind
ContributesNothing(c) ==
    \A e \in 1..Len(tmap.columns) :
        LET m == tmap.columns[e]
        IN  m.column_name = tdf.cols[c] =>
                \/ m.role \notin {"identifier", "quantity", "stage_date"}
                \/ m.role = "identifier"
                   /\ m.field \notin {"order_number", "style", "fabric_spec", "color"}
                \/ m.role = "stage_date" /\ m.stage = NoName

C28_MetadataAfterRecords ==
    \A r \in Runs :
        /\ icalls[r].metadata > 0 =>
              /\ icalls[r].create_many = 1
              /\ ifail[r] # "create_many"
              /\ [i \in 1..Len(StoredBy(r)) |-> StoredBy(r)[i].item] = iobjs[r]
        /\ ifail[r] = "metadata" =>
              /\ ipc[r] = "failed"
              /\ icalls[r].create_many = 1
              /\ [i \in 1..Len(StoredBy(r)) |-> StoredBy(r)[i].item] = iobjs[r]
              /\ MetadataBy(r) = <<>>
        /\ ifail[r] = "create_many" =>
              /\ ipc[r] = "failed"
              /\ icalls[r].metadata = 0
              /\ MetadataBy(r) = <<>>

\* one ingestion failed in the metadata create it had issued, with its records
\* stored, and the other failed in create_many with a part of its records stored
C28_Witness ==
    \E r1 \in Runs, r2 \in Runs :
        /\ ifail[r1] = "metadata"
        /\ icalls[r1].metadata = 1
        /\ StoredBy(r1) # <<>>
        /\ ifail[r2] = "create_many"
        /\ StoredBy(r2) # <<>>

\* the cells of the expanded table whose value is not the one of the table handed in
ChangedCells ==
    {<<r, c>> \in (1..Len(etable.rows)) \X (1..Len(etable.cols)) :
        eout.rows[r][c] # etable.rows[r][c]}

\* C29: expand_merged_rows changes only null cells of the columns selected for
\* filling, each to the nearest preceding non-null value of its column: a non-null
\* cell keeps its value, a column not selected is unchanged, shape, row order and
\* column labels are preserved, and the reported rows_affected is the number of cells
\* whose value changed.
C29_ExpansionFrame ==
    epc \in {"expanded", "reexpanded"} =>
        /\ eout.cols = etable.cols
        /\ Len(eout.rows) = Len(etable.rows)
        /\ \A r \in 1..Len(eout.rows) : Len(eout.rows[r]) = Len(etable.rows[r])
        /\ \A c \in 1..Len(etable.cols) :
              IF c \in Filled THEN ForwardFilled(etable, eout, c)
              ELSE LeftAsItWas(etable, eout, c)
        /\ \A rc \in ChangedCells : IsNa(etable.rows[rc[1]][rc[2]]) /\ rc[2] \in Filled
        /\ einfo.rows_affected = Cardinality(ChangedCells)
====
